---------------------------- MODULE Spec2Model ----------------------------
(***************************************************************************)
(* Model of the sliding context plugin: the scorer (computeScore), the     *)
(* retrieval assembler (deduplicateAndRank), the similarity deduplicator   *)
(* (contentDedup), the chronological/ranked splitter                       *)
(* (splitChronologicalAndRanked), the parser of the turn classifier's      *)
(* response (parseDedupResponse), the capture and recall handlers of the   *)
(* plugin (agent_end, before_agent_start) over the store, the store        *)
(* adapter's getRecent on its own, two capture handlers running            *)
(* concurrently on one store, and the batch consolidator (groupSimilar,    *)
(* runCleanup).                                                            *)
(*                                                                         *)
(* Each component has a specification of its own (SpecScore, SpecRank,     *)
(* SpecParse, SpecPlugin, SpecRecent, SpecRace, SpecCleanup): its inputs   *)
(* are drawn by the initial predicate and its functions are applied by     *)
(* the actions; the variables of the other components stay idle.  The      *)
(* asynchronous handlers take one action per awaited call, which succeeds  *)
(* or throws.                                                              *)
(*                                                                         *)
(* Numbers.  Timestamps are milliseconds, as in the source.  Scores are    *)
(* fixed-point integers in 1/100000 (Unit = 1.0) ; similarities are in    *)
(* thousandths.  Texts are sequences of one-character strings.             *)
(***************************************************************************)
EXTENDS Integers, Sequences, FiniteSets, TLC

VARIABLES
    \* --- scorer: one call of computeScore
    scPc,           \* "input" | "scored"
    scEntry,        \* the entry being scored
    scSemantic,     \* semanticScore argument, in thousandths
    scParams,       \* RankingParams
    scScore,        \* the returned score, in the score scale
    \* --- retrieval: one recall (deduplicateAndRank, then the split)
    rkPc,           \* "input" | "merged" | "split"
    recent,         \* recency list: sequence of entries
    relevant,       \* semantic list: sequence of [entry, score]
    params,         \* RankingParams of the call
    recentWindowHours,
    scored,         \* deduplicateAndRank: the union, scored, before the sort
    sortedScored,   \* deduplicateAndRank: scored after the sort (contentDedup's input)
    deduped,        \* deduplicateAndRank: what contentDedup returned
    merged,         \* deduplicateAndRank: the returned list
    chronological,  \* splitChronologicalAndRanked: first list
    ranked,         \* splitChronologicalAndRanked: second list
    \* --- turn classifier: one call of parseDedupResponse
    psPc,           \* "input" | "parsed"
    genParts,       \* how the generation service built the response
    response,       \* the raw response text
    recentEntries,  \* the reference entries, most recent first
    parsed,         \* the SummarizeResult returned
    \* --- plugin: one invocation of a handler against the store
    hook,           \* the event fired: "agent_end" | "before_agent_start"
    plPc,           \* the handler's position (the external call it is about to make)
    table,          \* the store's rows
    table0,         \* the store's rows when the event was fired
    clock,          \* Date.now()
    event,          \* the event's payload
    cfg,            \* the plugin configuration
    cpRecentEntries,\* capture: the reference entries loaded
    generation,     \* capture: what the generation call ended in
    cpResult,       \* capture: the SummarizeResult
    cpVector,       \* capture: the embedding of the summary
    caught,         \* the step whose exception the handler's catch block logged
    outcome,        \* what the host sees: "pending" | "returned" | "threw"
    uuids,          \* number of ids randomUUID() has given
    rc,             \* recall: the handler's locals
    injected,       \* recall: what the handler returned to the host
    pruneResult,    \* capture: how pruneOlderThan ended: "none" | "deleted" | "swallowed"
    \* --- consolidator: runs of the cleanup script against the store
    clPc,           \* runCleanup's position
    clArgs,         \* the command line (CliArgs)
    clEntries,      \* the entries loaded by store.getAll()
    clGroups,       \* what groupSimilar returned
    gi,             \* the group being merged (1-based), 0 before the loop
    di,             \* the member of the group to delete next (1-based)
    mergedSummary,  \* the merged summary of the group
    clVector,       \* the embedding of the merged summary
    totalRemoved,   \* the script's count of removed entries
    backup,         \* the backup taken by this run
    run,            \* the number of the run
    clStatus,       \* "running" | "completed" | "failed"
    \* --- concurrent captures: agent_end handlers running against the one store
    invocations,    \* for each invocation in flight, its position and its locals
    \* --- store adapter: one call of ContextStore.getRecent
    grPc,           \* "call" | "returned"
    grLimit,        \* limit argument
    grWindowHours,  \* windowHours argument
    grNow,          \* Date.now() at the call
    grResult        \* the entries returned

scoreVars == <<scPc, scEntry, scSemantic, scParams, scScore>>
rankVars  == <<rkPc, recent, relevant, params, recentWindowHours, scored,
               sortedScored, deduped, merged, chronological, ranked>>
parseVars == <<psPc, genParts, response, recentEntries, parsed>>
pluginVars == <<hook, plPc, table, table0, clock, event, cfg, cpRecentEntries,
                generation, cpResult, cpVector, caught, outcome, uuids, rc, injected,
                pruneResult>>
handlerVars == <<hook, plPc, clock, event, cfg, cpRecentEntries, generation, cpResult,
                 cpVector, caught, outcome, rc, injected, pruneResult>>
cleanupVars == <<clPc, clArgs, clEntries, clGroups, gi, di, mergedSummary, clVector,
                 totalRemoved, backup, run, clStatus>>
raceVars  == <<invocations>>
recentVars == <<grPc, grLimit, grWindowHours, grNow, grResult>>
vars      == <<scoreVars, rankVars, parseVars, pluginVars, cleanupVars, raceVars, recentVars>>

-----------------------------------------------------------------------------
(* Generic helpers *)

Min(a, b) == IF a <= b THEN a ELSE b
Abs(a)    == IF a < 0 THEN -a ELSE a

\* Array.prototype.slice(0, n) for n >= 0
Take(s, n) == SubSeq(s, 1, Min(n, Len(s)))

\* the value of 1.0 in the fixed-point score scale
Unit == 100 * 1000

\* one thousandth, in the score scale
PerThousand == Unit \div 1000

-----------------------------------------------------------------------------
(* Characters *)

UpperLetters == <<"A","B","C","D","E","F","G","H","I","J","K","L","M",
                  "N","O","P","Q","R","S","T","U","V","W","X","Y","Z">>
LowerLetters == <<"a","b","c","d","e","f","g","h","i","j","k","l","m",
                  "n","o","p","q","r","s","t","u","v","w","x","y","z">>
Digits       == <<"0","1","2","3","4","5","6","7","8","9">>

Range(s) == { s[i] : i \in DOMAIN s }

UpperLetterSet == Range(UpperLetters)
LowerLetterSet == Range(LowerLetters)
DigitSet       == Range(Digits)

LowerOf == [c \in UpperLetterSet |->
               LowerLetters[CHOOSE i \in DOMAIN UpperLetters : UpperLetters[i] = c]]

\* String.prototype.toLowerCase, one character
ToLowerChar(c) == IF c \in UpperLetterSet THEN LowerOf[c] ELSE c

\* the regular expression class \s (and what String.prototype.trim removes)
IsSpace(c) == c \in {" ", "\n", "\t"}

IsDigit(c) == c \in DigitSet

-----------------------------------------------------------------------------
(* Scorer: computeScore *)

MsPerHour == 3600000

WeightSemantic == 400    \* 0.4, in thousandths
WeightRecency  == 300    \* 0.3
BoostSession   == 100    \* 0.1
BoostDecision  == 100    \* 0.1
BoostDm        == 100    \* 0.1

\* 2^(-q/2) in the score scale, q an integer number of half half-lives (q may be
\* negative).  Exact for even q, rounded (sqrt(1/2) = 0.70711) for odd q.
RECURSIVE Pow2NegHalves(_)
Pow2NegHalves(q) ==
    IF q < 0 THEN 2 * Pow2NegHalves(q + 2)
    ELSE IF q = 0 THEN Unit
    ELSE IF q = 1 THEN 70711
    ELSE Pow2NegHalves(q - 2) \div 2

\* Math.exp(-lambda * hoursAgo) with hoursAgo = elapsedMs / 3_600_000 and
\* lambda = Math.LN2 / halfLifeHours, i.e. 2^(-elapsedMs / (halfLifeHours * 3_600_000)),
\* in the score scale.  The time grid of the model keeps 2 * elapsedMs a multiple of
\* halfLifeHours * 3_600_000, so the exponent is a whole number of halves.
ExpDecay(elapsedMs, halfLifeHours) ==
    Pow2NegHalves((2 * elapsedMs) \div (halfLifeHours * MsPerHour))

\* mutant: the decay exponent with the wrong sign (the score grows with age)
computeScoreGrowing(entry, semanticScore, p) ==
      (Min(semanticScore, 1000) * WeightSemantic * PerThousand) \div 1000
    + (ExpDecay(entry.timestamp - p.now, p.decayHalfLifeHours) * WeightRecency) \div 1000
    + (IF entry.sessionKey = p.currentSession THEN BoostSession * PerThousand ELSE 0)
    + (IF entry.hasDecision \/ entry.hasToolCalls THEN BoostDecision * PerThousand ELSE 0)
    + (IF entry.sessionType = "dm" THEN BoostDm * PerThousand ELSE 0)

computeScore(entry, semanticScore, p) ==
      (Min(semanticScore, 1000) * WeightSemantic * PerThousand) \div 1000
    + (ExpDecay(p.now - entry.timestamp, p.decayHalfLifeHours) * WeightRecency) \div 1000
    + (IF entry.sessionKey = p.currentSession THEN BoostSession * PerThousand ELSE 0)
    + (IF entry.hasDecision \/ entry.hasToolCalls THEN BoostDecision * PerThousand ELSE 0)
    + (IF entry.sessionType = "dm" THEN BoostDm * PerThousand ELSE 0)

-----------------------------------------------------------------------------
(* Similarity deduplicator: significantWords, jaccardSimilarity, contentDedup *)

\* the characters the regular expression /[^a-z...0-9\s-]/g leaves in place
\* (the model's alphabet is ASCII: the four German letters of the class never occur)
IsKeptChar(c) ==
    \/ c \in LowerLetterSet
    \/ IsDigit(c)
    \/ IsSpace(c)
    \/ c = "-"

\* text.toLowerCase().replace(/[^a-z...0-9\s-]/g, " "), one character: both
\* steps work character by character
cleanChar(c) ==
    LET low == ToLowerChar(c)
    IN  IF IsKeptChar(low) THEN low ELSE " "

\* .split(/\s+/) of the cleaned text, scanning it once: `word` is the run of
\* non-space characters read so far, `words` the runs already closed (the empty
\* strings a leading or trailing separator yields are dropped by the length
\* filter of significantWords)
RECURSIVE splitLoop(_, _, _, _)
splitLoop(text, i, word, words) ==
    IF i > Len(text)
    THEN (IF word = <<>> THEN words ELSE words \cup {word})
    ELSE LET c == cleanChar(text[i])
         IN  IF IsSpace(c)
             THEN splitLoop(text, i + 1, <<>>,
                            IF word = <<>> THEN words ELSE words \cup {word})
             ELSE splitLoop(text, i + 1, Append(word, c), words)

cleanAndSplit(text) == splitLoop(text, 1, <<>>, {})

MinWordLength == 3

significantWords(text) ==
    { w \in cleanAndSplit(text) : Len(w) > MinWordLength }

\* intersection / union, in thousandths (rounded down); 1000 when both are empty
jaccardSimilarity(a, b) ==
    IF Cardinality(a) = 0 /\ Cardinality(b) = 0 THEN 1000
    ELSE LET intersection == Cardinality(a \cap b)
         IN  (intersection * 1000) \div (Cardinality(a) + Cardinality(b) - intersection)

DedupWindowMs  == 3600000   \* windowMs = 3_600_000
DedupThreshold == 550       \* threshold = 0.55, in thousandths

\* mutant: the time window is not applied
withinWindowAlways(entry, existing, windowMs) == TRUE

\* the negation of `Math.abs(entry.timestamp - existing.timestamp) > windowMs`
withinWindow(entry, existing, windowMs) ==
    ~(Abs(entry.timestamp - existing.timestamp) > windowMs)

\* mutant: every accepted entry within the window counts as similar
isDuplicateInWindow(entry, words, result, wordCache, windowMs, threshold) ==
    \E i \in DOMAIN result : withinWindow(entry, result[i], windowMs)

\* the inner loop of contentDedup: is the candidate, whose words are `words`,
\* too similar to an accepted entry (wordCache[i] holds the words of result[i])
isDuplicate(entry, words, result, wordCache, windowMs, threshold) ==
    \E i \in DOMAIN result :
        /\ withinWindow(entry, result[i], windowMs)
        /\ jaccardSimilarity(words, wordCache[i]) >= threshold

\* mutant: a kept entry is put in front of the result instead of behind it
acceptEntryInFront(result, entry) == <<entry>> \o result

\* result.push(entry)
acceptEntry(result, entry) == Append(result, entry)

\* the outer loop of contentDedup, from the entries still to visit
RECURSIVE contentDedupLoop(_, _, _, _, _)
contentDedupLoop(entries, result, wordCache, windowMs, threshold) ==
    IF entries = <<>> THEN result
    ELSE LET entry == Head(entries)
             words == significantWords(entry.summary)
         IN  IF isDuplicate(entry, words, result, wordCache, windowMs, threshold)
             THEN contentDedupLoop(Tail(entries), result, wordCache, windowMs, threshold)
             ELSE contentDedupLoop(Tail(entries), acceptEntry(result, entry),
                                   acceptEntry(wordCache, words), windowMs, threshold)

contentDedup(entries, windowMs, threshold) ==
    contentDedupLoop(entries, <<>>, <<>>, windowMs, threshold)

-----------------------------------------------------------------------------
(* Retrieval assembler: deduplicateAndRank *)

\* mutant: the identity check never finds an id
seenHasNever(seen, id) == FALSE

\* seen.has(entry.id)
seenHas(seen, id) == id \in seen

\* mutant: a recency-sourced entry is scored with the similarity the search gave it
recentSemanticScoreFromSearch(entry, rel) ==
    IF \E i \in DOMAIN rel : rel[i].entry.id = entry.id
    THEN rel[CHOOSE i \in DOMAIN rel : rel[i].entry.id = entry.id].score
    ELSE 0

\* the semantic score of a recency-sourced entry: computeScore(entry, 0, params)
recentSemanticScore(entry, rel) == 0

\* { ...entry, finalScore }
withScore(entry, finalScore) == entry @@ [finalScore |-> finalScore]

\* first loop: score the recent entries
RECURSIVE scoreRecent(_, _, _, _, _)
scoreRecent(list, rel, acc, seen, p) ==
    IF list = <<>> THEN [scored |-> acc, seen |-> seen]
    ELSE LET entry == Head(list)
         IN  IF seenHas(seen, entry.id)
             THEN scoreRecent(Tail(list), rel, acc, seen, p)
             ELSE scoreRecent(
                      Tail(list), rel,
                      Append(acc, withScore(entry, computeScore(
                                       entry, recentSemanticScore(entry, rel), p))),
                      seen \cup {entry.id}, p)

\* second loop: score the relevant entries
RECURSIVE scoreRelevant(_, _, _, _)
scoreRelevant(list, acc, seen, p) ==
    IF list = <<>> THEN [scored |-> acc, seen |-> seen]
    ELSE LET entry == Head(list).entry
             semanticScore == Head(list).score
         IN  IF seenHas(seen, entry.id)
             THEN scoreRelevant(Tail(list), acc, seen, p)
             ELSE scoreRelevant(
                      Tail(list),
                      Append(acc, withScore(entry, computeScore(entry, semanticScore, p))),
                      seen \cup {entry.id}, p)

\* mutant: an element is inserted ahead of the elements it ties with
insertByScoreUnstable(sorted, x) ==
    LET ahead == { i \in DOMAIN sorted : sorted[i].finalScore > x.finalScore }
        k == Cardinality(ahead)
    IN  SubSeq(sorted, 1, k) \o <<x>> \o SubSeq(sorted, k + 1, Len(sorted))

\* one insertion of the stable sort by (a, b) => b.finalScore - a.finalScore:
\* x goes behind every element that does not score lower
insertByScore(sorted, x) ==
    LET ahead == { i \in DOMAIN sorted : sorted[i].finalScore >= x.finalScore }
        k == Cardinality(ahead)
    IN  SubSeq(sorted, 1, k) \o <<x>> \o SubSeq(sorted, k + 1, Len(sorted))

\* Array.prototype.sort((a, b) => b.finalScore - a.finalScore), which is stable
RECURSIVE sortByScoreLoop(_, _)
sortByScoreLoop(list, sorted) ==
    IF list = <<>> THEN sorted
    ELSE sortByScoreLoop(Tail(list), insertByScore(sorted, Head(list)))

sortByScore(list) == sortByScoreLoop(list, <<>>)

\* mutant: the budget is applied before the content deduplication
truncateThenDedup(sortedList, maxEntries) ==
    contentDedup(Take(sortedList, maxEntries), DedupWindowMs, DedupThreshold)

\* contentDedup(scored) with its default window and threshold, then
\* deduped.slice(0, params.maxEntries)
dedupThenTruncate(sortedList, maxEntries) ==
    Take(contentDedup(sortedList, DedupWindowMs, DedupThreshold), maxEntries)

\* the whole function; the intermediate lists are returned beside the result
deduplicateAndRank(rec, rel, p) ==
    LET afterRecent   == scoreRecent(rec, rel, <<>>, {}, p)
        afterRelevant == scoreRelevant(rel, afterRecent.scored, afterRecent.seen, p)
        sortedList    == sortByScore(afterRelevant.scored)
    IN  [scored  |-> afterRelevant.scored,
         sorted  |-> sortedList,
         deduped |-> contentDedup(sortedList, DedupWindowMs, DedupThreshold),
         result  |-> dedupThenTruncate(sortedList, p.maxEntries)]

-----------------------------------------------------------------------------
(* Chronological/ranked splitter: splitChronologicalAndRanked *)

\* mutant: the window is compared strictly
inRecentWindowStrict(entry, windowHours, now) ==
    entry.timestamp > now - windowHours * MsPerHour

\* entry.timestamp >= cutoff, with cutoff = now - recentWindowHours * 3_600_000
inRecentWindow(entry, windowHours, now) ==
    entry.timestamp >= now - windowHours * MsPerHour

\* one insertion of the stable sort by (a, b) => a.timestamp - b.timestamp
insertByTimestamp(sorted, x) ==
    LET ahead == { i \in DOMAIN sorted : sorted[i].timestamp <= x.timestamp }
        k == Cardinality(ahead)
    IN  SubSeq(sorted, 1, k) \o <<x>> \o SubSeq(sorted, k + 1, Len(sorted))

RECURSIVE sortByTimestampLoop(_, _)
sortByTimestampLoop(list, sorted) ==
    IF list = <<>> THEN sorted
    ELSE sortByTimestampLoop(Tail(list), insertByTimestamp(sorted, Head(list)))

sortByTimestamp(list) == sortByTimestampLoop(list, <<>>)

splitChronologicalAndRanked(entries, windowHours, now) ==
    [chronological |->
        sortByTimestamp(SelectSeq(entries, LAMBDA e : inRecentWindow(e, windowHours, now))),
     ranked |->
        sortByScore(SelectSeq(entries, LAMBDA e : ~inRecentWindow(e, windowHours, now)))]

-----------------------------------------------------------------------------
(* Inputs of the scorer specification *)

MaxHours == 3

Hours == 0..MaxHours

TimeGrid == { h * MsPerHour : h \in Hours }

\* similarities a nearest-neighbour query may return, in thousandths: the store
\* adapter's value is not guaranteed to be a normalised one
SemanticInputs == {-500, 0, 300, 1000, 1500}

SessionKeys == {"s1", "s2"}

SessionTypes == {"dm", "group"}

HalfLives == {1, 2}

CurrentSession == "s1"

NoEntry == [id |-> "none"]

ScoreIdle ==
    /\ scPc = "idle"
    /\ scEntry = NoEntry
    /\ scSemantic = 0
    /\ scParams = [now |-> 0]
    /\ scScore = 0

RankIdle ==
    /\ rkPc = "idle"
    /\ recent = <<>>
    /\ relevant = <<>>
    /\ params = [now |-> 0]
    /\ recentWindowHours = 0
    /\ scored = <<>>
    /\ sortedScored = <<>>
    /\ deduped = <<>>
    /\ merged = <<>>
    /\ chronological = <<>>
    /\ ranked = <<>>

ParseIdle ==
    /\ psPc = "idle"
    /\ genParts = [shape |-> "none"]
    /\ response = <<>>
    /\ recentEntries = <<>>
    /\ parsed = [action |-> "none"]

\* the recall handler's locals before it has run
NoLocals ==
    [now |-> 0, recent |-> <<>>, vector |-> <<>>, relevant |-> <<>>, merged |-> <<>>,
     chronological |-> <<>>, ranked |-> <<>>, context |-> [empty |-> TRUE],
     returns |-> FALSE]

NotCalled == [kind |-> "notCalled", parts |-> [shape |-> "none"], text |-> <<>>]

NoResult == [action |-> "none", summary |-> <<>>]

HandlersIdle ==
    /\ hook = "none"
    /\ plPc = "idle"
    /\ clock = 0
    /\ event = [messages |-> "none"]
    /\ cfg = [mode |-> "none"]
    /\ cpRecentEntries = <<>>
    /\ generation = NotCalled
    /\ cpResult = NoResult
    /\ cpVector = <<>>
    /\ caught = "none"
    /\ outcome = "idle"
    /\ rc = NoLocals
    /\ injected = [kind |-> "nothing"]
    /\ pruneResult = "none"

PluginIdle ==
    /\ HandlersIdle
    /\ table = {}
    /\ table0 = {}
    /\ uuids = 0

CleanupIdle ==
    /\ clPc = "idle"
    /\ clArgs = [dryRun |-> TRUE]
    /\ clEntries = <<>>
    /\ clGroups = <<>>
    /\ gi = 0
    /\ di = 0
    /\ mergedSummary = <<>>
    /\ clVector = <<>>
    /\ totalRemoved = 0
    /\ backup = [taken |-> FALSE, rows |-> {}]
    /\ run = 0
    /\ clStatus = "idle"

RaceIdle == invocations = <<>>

RecentIdle ==
    /\ grPc = "idle"
    /\ grLimit = 0
    /\ grWindowHours = 0
    /\ grNow = 0
    /\ grResult = <<>>

InitScore ==
    /\ scPc = "input"
    /\ scEntry \in [id : {"e"}, timestamp : TimeGrid, summary : {<<>>},
                    sessionKey : SessionKeys, sessionType : SessionTypes,
                    hasToolCalls : BOOLEAN, hasDecision : BOOLEAN]
    /\ scSemantic \in SemanticInputs
    /\ scParams \in [currentSession : {CurrentSession}, now : TimeGrid,
                     maxEntries : {1}, decayHalfLifeHours : HalfLives]
    /\ scScore = 0
    /\ RankIdle
    /\ RaceIdle
    /\ RecentIdle
    /\ ParseIdle
    /\ PluginIdle
    /\ CleanupIdle

\* one call computeScore(entry, semanticScore, params)
ComputeScore ==
    /\ scPc = "input"
    /\ scScore' = computeScore(scEntry, scSemantic, scParams)
    /\ scPc' = "scored"
    /\ UNCHANGED <<scEntry, scSemantic, scParams, rankVars, parseVars, pluginVars, cleanupVars, raceVars, recentVars>>

NextScore == ComputeScore

SpecScore == InitScore /\ [][NextScore]_vars

-----------------------------------------------------------------------------
(* Inputs of the retrieval specification: a store snapshot and the two lists
   a recall draws from it *)

\* two wordings of one topic, and another topic
Summaries ==
    [blogA  |-> <<"B","l","o","g"," ","f","i","x">>,
     blogB  |-> <<"t","h","e"," ","b","l","o","g",","," ","f","i","x","!">>,
     lunch  |-> <<"l","u","n","c","h">>]

StoredEntry(id, hour, summary, sessionKey) ==
    [id |-> id, timestamp |-> hour * MsPerHour, summary |-> summary,
     sessionKey |-> sessionKey, sessionType |-> "group",
     hasToolCalls |-> FALSE, hasDecision |-> FALSE]

\* the entries in the store at the time of the recall: three entries on one
\* topic an hour apart from each other, and one on another topic
Store ==
    { StoredEntry("e1", 3, Summaries.blogA, "s1"),
      StoredEntry("e2", 2, Summaries.blogB, "s1"),
      StoredEntry("e3", 1, Summaries.blogA, "s2"),
      StoredEntry("e4", 1, Summaries.lunch, "s1") }

\* the similarity the store's search gives each entry for the recall's prompt
Similarity(entry) ==
    CASE entry.id = "e1" -> 1000
      [] entry.id = "e2" -> 500
      [] entry.id = "e3" -> 250
      [] OTHER           -> 1500

MaxRecent   == 2
MaxRelevant == 1
MaxBudget   == 2

SeqsUpTo(S, n) == UNION { [1..k -> S] : k \in 0..n }

RecallTimes == { 3 * MsPerHour }

RecentWindows == {1, 2}

InitRank ==
    /\ rkPc = "input"
    /\ recent \in SeqsUpTo(Store, MaxRecent)
    /\ relevant \in SeqsUpTo({ [entry |-> e, score |-> Similarity(e)] : e \in Store },
                             MaxRelevant)
    /\ params \in [currentSession : {CurrentSession}, now : RecallTimes,
                   maxEntries : 0..MaxBudget, decayHalfLifeHours : {2}]
    /\ recentWindowHours \in RecentWindows
    /\ scored = <<>>
    /\ sortedScored = <<>>
    /\ deduped = <<>>
    /\ merged = <<>>
    /\ chronological = <<>>
    /\ ranked = <<>>
    /\ ScoreIdle
    /\ RaceIdle
    /\ RecentIdle
    /\ ParseIdle
    /\ PluginIdle
    /\ CleanupIdle

\* const merged = deduplicateAndRank(recent, relevant, {...})
DeduplicateAndRank ==
    /\ rkPc = "input"
    /\ LET r == deduplicateAndRank(recent, relevant, params)
       IN  /\ scored' = r.scored
           /\ sortedScored' = r.sorted
           /\ deduped' = r.deduped
           /\ merged' = r.result
    /\ rkPc' = "merged"
    /\ UNCHANGED <<recent, relevant, params, recentWindowHours, chronological, ranked,
                   scoreVars, parseVars, pluginVars, cleanupVars, raceVars, recentVars>>

\* if (merged.length === 0) return; then
\* splitChronologicalAndRanked(merged, cfg.recentWindowHours, now)
SplitChronologicalAndRanked ==
    /\ rkPc = "merged"
    /\ merged # <<>>
    /\ LET r == splitChronologicalAndRanked(merged, recentWindowHours, params.now)
       IN  /\ chronological' = r.chronological
           /\ ranked' = r.ranked
    /\ rkPc' = "split"
    /\ UNCHANGED <<recent, relevant, params, recentWindowHours, scored, sortedScored,
                   deduped, merged, scoreVars, parseVars, pluginVars, cleanupVars, raceVars, recentVars>>

NextRank == DeduplicateAndRank \/ SplitChronologicalAndRanked

SpecRank == InitRank /\ [][NextRank]_vars

-----------------------------------------------------------------------------
(* Turn classifier: parseDedupResponse *)

\* the first and the last position of `text` that hold no white space
firstNonSpace(text) ==
    IF \E i \in DOMAIN text : ~IsSpace(text[i])
    THEN CHOOSE i \in DOMAIN text :
             ~IsSpace(text[i]) /\ \A j \in 1..(i - 1) : IsSpace(text[j])
    ELSE Len(text) + 1

lastNonSpace(text) ==
    IF \E i \in DOMAIN text : ~IsSpace(text[i])
    THEN CHOOSE i \in DOMAIN text :
             ~IsSpace(text[i]) /\ \A j \in (i + 1)..Len(text) : IsSpace(text[j])
    ELSE 0

\* String.prototype.trim
trim(text) == SubSeq(text, firstNonSpace(text), lastNonSpace(text))

\* a literal keyword at the start of the text, under the flag i
startsWithIgnoreCase(text, keyword) ==
    /\ Len(text) >= Len(keyword)
    /\ \A i \in DOMAIN keyword : ToLowerChar(text[i]) = ToLowerChar(keyword[i])

\* \s* from position pos: the position of the first character behind the spaces
RECURSIVE skipSpaces(_, _)
skipSpaces(text, pos) ==
    IF pos <= Len(text) /\ IsSpace(text[pos]) THEN skipSpaces(text, pos + 1) ELSE pos

\* \d* from position pos: the position of the first character behind the digits
RECURSIVE skipDigits(_, _)
skipDigits(text, pos) ==
    IF pos <= Len(text) /\ IsDigit(text[pos]) THEN skipDigits(text, pos + 1) ELSE pos

charAt(text, pos, c) == pos <= Len(text) /\ text[pos] = c

NoMatch == [matched |-> FALSE]

\* mutant: without the flag s the dot stops at a line break
captureRestOfLine(text, pos) ==
    LET p == skipSpaces(text, pos)
        breaks == { i \in p..Len(text) : text[i] = "\n" }
        last == IF breaks = {} THEN Len(text)
                ELSE (CHOOSE i \in breaks : \A j \in breaks : i <= j) - 1
    IN  IF p <= Len(text) /\ last >= p
        THEN [matched |-> TRUE, group |-> SubSeq(text, p, last)]
        ELSE NoMatch

\* \s*(.+) under the flag s, from position pos to the end of the text: the
\* spaces are skipped and the group takes the rest; when nothing is left behind
\* the spaces, the matcher backtracks and the group takes the last space
captureRest(text, pos) ==
    LET p == skipSpaces(text, pos)
    IN  IF p <= Len(text)
        THEN [matched |-> TRUE, group |-> SubSeq(text, p, Len(text))]
        ELSE IF p > pos
        THEN [matched |-> TRUE, group |-> SubSeq(text, Len(text), Len(text))]
        ELSE NoMatch

KeywordSkip   == <<"S","K","I","P">>
KeywordUpdate == <<"U","P","D","A","T","E">>
KeywordNew    == <<"N","E","W">>

\* mutant: without the flag i only the upper-case keyword matches
matchSkipExact(trimmed) ==
    /\ Len(trimmed) >= Len(KeywordSkip)
    /\ SubSeq(trimmed, 1, Len(KeywordSkip)) = KeywordSkip
    /\ \A i \in (Len(KeywordSkip) + 1)..Len(trimmed) : IsSpace(trimmed[i])

\* /^SKIP\s*$/i.test(trimmed)
matchSkip(trimmed) ==
    /\ startsWithIgnoreCase(trimmed, KeywordSkip)
    /\ \A i \in (Len(KeywordSkip) + 1)..Len(trimmed) : IsSpace(trimmed[i])

\* trimmed.match(/^UPDATE\s*\[(\d+)]\s*:\s*(.+)/is): groups 1 (digits) and 2 (group)
matchUpdate(trimmed) ==
    IF ~startsWithIgnoreCase(trimmed, KeywordUpdate) THEN NoMatch
    ELSE LET open   == skipSpaces(trimmed, Len(KeywordUpdate) + 1)
             close  == skipDigits(trimmed, open + 1)
             colon  == skipSpaces(trimmed, close + 1)
             rest   == captureRest(trimmed, colon + 1)
         IN  IF /\ charAt(trimmed, open, "[")
                /\ close > open + 1
                /\ charAt(trimmed, close, "]")
                /\ charAt(trimmed, colon, ":")
                /\ rest.matched
             THEN [matched |-> TRUE,
                   digits  |-> SubSeq(trimmed, open + 1, close - 1),
                   group   |-> rest.group]
             ELSE NoMatch

\* trimmed.match(/^NEW\s*:\s*(.+)/is): group 1
matchNew(trimmed) ==
    IF ~startsWithIgnoreCase(trimmed, KeywordNew) THEN NoMatch
    ELSE LET colon == skipSpaces(trimmed, Len(KeywordNew) + 1)
             rest  == captureRest(trimmed, colon + 1)
         IN  IF charAt(trimmed, colon, ":") /\ rest.matched
             THEN [matched |-> TRUE, group |-> rest.group]
             ELSE NoMatch

DigitValue(c) == (CHOOSE i \in DOMAIN Digits : Digits[i] = c) - 1

\* parseInt(digits, 10) of a non-empty string of decimal digits
RECURSIVE parseInt(_)
parseInt(digits) ==
    IF digits = <<>> THEN 0
    ELSE 10 * parseInt(SubSeq(digits, 1, Len(digits) - 1)) + DigitValue(digits[Len(digits)])

\* mutant: the 1-based index is used as it is
indexOfOneBasedKept(digits) == parseInt(digits)

\* parseInt(updateMatch[1], 10) - 1: the 1-based index as a 0-based one
indexOf(digits) == parseInt(digits) - 1

MinSummaryLength == 10

\* mutant: the length test is strict
longEnoughStrict(summary) == Len(summary) > MinSummaryLength

\* summary.length >= 10
longEnough(summary) == Len(summary) >= MinSummaryLength

parseDedupResponse(text, refs) ==
    LET trimmed     == trim(text)
        updateMatch == matchUpdate(trimmed)
        newMatch    == matchNew(trimmed)
    IN  IF matchSkip(trimmed)
        THEN [action |-> "skip", summary |-> <<>>]
        ELSE IF updateMatch.matched
        THEN LET idx     == indexOf(updateMatch.digits)
                 summary == trim(updateMatch.group)
             IN  IF idx >= 0 /\ idx < Len(refs) /\ longEnough(summary)
                 THEN [action |-> "update", summary |-> summary,
                       replaceId |-> refs[idx + 1].id]
                 ELSE [action |-> "new",
                       summary |-> IF summary # <<>> THEN summary ELSE trimmed]
        ELSE IF newMatch.matched
        THEN [action |-> "new", summary |-> trim(newMatch.group)]
        ELSE [action |-> "new", summary |-> trimmed]

-----------------------------------------------------------------------------
(* Inputs of the classifier specification: the responses the generation
   service may give, built from their parts, and the reference entries *)

MaxRefs == 3

RefIds == <<"r1", "r2", "r3", "r4", "r5", "r6">>

\* the k most recent stored entries, most recent first
References(k) == [i \in 1..k |-> [id |-> RefIds[i]]]

Leads  == { <<>>, <<" ">> }
Trails == { <<>>, <<"\n">> }
Gaps   == { <<>>, <<" ">> }

UpdateWords == { <<"U","P","D","A","T","E">>, <<"u","p","d","a","t","e">> }
NewWords    == { <<"N","E","W">>, <<"N","e","w">> }
SkipWords   == { <<"S","K","I","P">>, <<"s","k","i","p">> }

\* the index as it is written, and the number it denotes
Indexes ==
    { [digits |-> <<"0">>, n |-> 0], [digits |-> <<"1">>, n |-> 1],
      [digits |-> <<"2">>, n |-> 2], [digits |-> <<"3">>, n |-> 3],
      [digits |-> <<"4">>, n |-> 4], [digits |-> <<"0", "2">>, n |-> 2],
      [digits |-> <<"9">>, n |-> 9] }

\* texts of 11, 4, 10, 9 and 17 characters, the last one of two lines
Bodies ==
    { <<"m","e","r","g","e","d"," ","t","e","x","t">>,
      <<"t","e","x","t">>,
      <<"t","e","n"," ","c","h","a","r","s","!">>,
      <<"n","i","n","e"," ","c","h","a","r">>,
      <<"l","i","n","e"," ","o","n","e","\n","l","i","n","e"," ","t","w","o">> }

\* responses of none of the three shapes
Unrecognized ==
    { <<"b","a","n","a","n","a">>,
      <<>>,
      <<"U","P","D","A","T","E"," ","2",":"," ","m","e","r","g","e","d"," ","t","e","x","t">>,
      <<"U","P","D","A","T","E"," ","[","x","]",":"," ","m","e","r","g","e","d"," ","t","e","x","t">>,
      <<"S","K","I","P"," ","t","h","i","s"," ","t","u","r","n">>,
      <<"o","k"," ","U","P","D","A","T","E"," ","[","2","]",":"," ","m","e","r","g","e","d"," ","t","e","x","t">> }

UpdateParts ==
    [shape : {"update"}, lead : Leads, word : UpdateWords, gap : Gaps,
     index : Indexes, body : Bodies, trail : Trails]

NewParts ==
    [shape : {"new"}, lead : Leads, word : NewWords, gap : Gaps,
     body : Bodies, trail : Trails]

SkipParts ==
    [shape : {"skip"}, lead : Leads, word : SkipWords, trail : Trails]

OtherParts == [shape : {"other"}, lead : Leads, body : Unrecognized, trail : Trails]

\* the text of a response from its parts
Compose(parts) ==
    CASE parts.shape = "update" ->
            parts.lead \o parts.word \o parts.gap \o <<"[">> \o parts.index.digits
            \o <<"]">> \o parts.gap \o <<":">> \o parts.gap \o parts.body \o parts.trail
      [] parts.shape = "new" ->
            parts.lead \o parts.word \o parts.gap \o <<":">> \o parts.gap
            \o parts.body \o parts.trail
      [] parts.shape = "skip" ->
            parts.lead \o parts.word \o parts.trail
      [] OTHER -> parts.lead \o parts.body \o parts.trail

InitParse ==
    /\ psPc = "input"
    /\ genParts \in UpdateParts \cup NewParts \cup SkipParts \cup OtherParts
    /\ response = Compose(genParts)
    /\ recentEntries \in { References(k) : k \in 0..MaxRefs }
    /\ parsed = [action |-> "none"]
    /\ ScoreIdle
    /\ RaceIdle
    /\ RecentIdle
    /\ RankIdle
    /\ PluginIdle
    /\ CleanupIdle

\* const result = parseDedupResponse(text, recentEntries)
ParseDedupResponse ==
    /\ psPc = "input"
    /\ parsed' = parseDedupResponse(response, recentEntries)
    /\ psPc' = "parsed"
    /\ UNCHANGED <<genParts, response, recentEntries, scoreVars, rankVars, pluginVars, cleanupVars, raceVars, recentVars>>

NextParse == ParseDedupResponse

SpecParse == InitParse /\ [][NextParse]_vars

-----------------------------------------------------------------------------
(* Entry store adapter: ContextStore *)

Max(a, b) == IF a >= b THEN a ELSE b

\* Date.now() - hours * 3600_000
cutoffOf(now, hours) == now - hours * MsPerHour

OverfetchFactor == 5
OverfetchFloor  == 100

\* Math.max(limit * 5, 100)
overfetchOf(limit) == Max(limit * OverfetchFactor, OverfetchFloor)

\* the subsets of k rows of S
RECURSIVE rowSubsets(_, _)
rowSubsets(S, k) ==
    IF k = 0 THEN {{}}
    ELSE UNION { { D \cup {x} : x \in S \ D } : D \in rowSubsets(S, k - 1) }

\* table.query().limit(n).toArray(): the row sets a scan of at most n rows may
\* return (the scan order is the store's own): all rows, or all but any
\* Cardinality(T) - n of them
scanRows(T, n) ==
    IF Cardinality(T) <= n THEN {T}
    ELSE { T \ D : D \in rowSubsets(T, Cardinality(T) - n) }

\* one step of a sort by (a, b) => b.timestamp - a.timestamp: x goes behind the
\* entries that are not older than it
insertNewestFirst(sorted, x) ==
    LET k == Cardinality({ i \in DOMAIN sorted : sorted[i].timestamp >= x.timestamp })
    IN  SubSeq(sorted, 1, k) \o <<x>> \o SubSeq(sorted, k + 1, Len(sorted))

RECURSIVE sortNewestFirstLoop(_, _)
sortNewestFirstLoop(list, sorted) ==
    IF list = <<>> THEN sorted
    ELSE sortNewestFirstLoop(Tail(list), insertNewestFirst(sorted, Head(list)))

\* list.sort((a, b) => b.timestamp - a.timestamp), a stable sort
sortNewestFirst(list) == sortNewestFirstLoop(list, <<>>)

\* rows of different timestamps sorted by (a, b) => b.timestamp - a.timestamp:
\* a row in the middle, the newer rows ahead of it, the older ones behind it
RECURSIVE sortRows(_)
sortRows(S) ==
    IF S = {} THEN <<>>
    ELSE LET middle == CHOOSE e \in S :
                           Cardinality({ f \in S : f.timestamp > e.timestamp })
                               = Cardinality(S) \div 2
         IN  sortRows({ f \in S : f.timestamp > middle.timestamp })
             \o <<middle>>
             \o sortRows({ f \in S : f.timestamp < middle.timestamp })

\* rows.sort((a, b) => b.timestamp - a.timestamp): the orders the sort may give
\* (rows of one timestamp keep their scan order, which is the store's own; rows
\* of different timestamps have one order)
newestFirst(S) ==
    IF Cardinality({ e.timestamp : e \in S }) = Cardinality(S)
    THEN { sortRows(S) }
    ELSE { s \in [1..Cardinality(S) -> S] :
             \A i, j \in 1..Cardinality(S) :
                 i < j => s[i] # s[j] /\ s[i].timestamp >= s[j].timestamp }

\* ContextStore.getRecent(limit, windowHours) at time `now`: the possible results
getRecent(T, limit, windowHours, now) ==
    { Take(s, limit) :
        s \in UNION { newestFirst({ e \in rows : e.timestamp >= cutoffOf(now, windowHours) }) :
                      rows \in scanRows(T, overfetchOf(limit)) } }

\* mutant: the deletion removes nothing
pruneOlderThanNothing(T, hours, now) == T

\* ContextStore.pruneOlderThan(hours) at time `now`: table.delete(`timestamp < cutoff`)
pruneOlderThan(T, hours, now) ==
    { e \in T : ~(e.timestamp < cutoffOf(now, hours)) }

\* ContextStore.store(entry): the row added, id: randomUUID()
storeEntry(T, entry, id) == T \cup { entry @@ [id |-> id] }

\* ContextStore.deleteById(id): removes the row of that id; no row, no effect
deleteById(T, id) == { e \in T : e.id # id }

\* row._distance: the squared distance of two vectors
distance(a, b) ==
    (a[1] - b[1]) * (a[1] - b[1]) + (a[2] - b[2]) * (a[2] - b[2])

\* the rows nearest to `vector` first: the orders vectorSearch may give
nearestFirst(S, vector) ==
    { s \in [1..Cardinality(S) -> S] :
        \A i, j \in 1..Cardinality(S) :
            i < j => s[i] # s[j] /\ distance(s[i].vector, vector) <= distance(s[j].vector, vector) }

\* const score = 1 / (1 + distance), in thousandths
scoreOfDistance(d) == 1000 \div (1 + d)

\* ContextStore.search(vector, limit, minScore): the possible results
search(T, vector, limit, minScore) ==
    { SelectSeq([i \in 1..Min(limit, Len(s)) |->
                    [entry |-> s[i], score |-> scoreOfDistance(distance(s[i].vector, vector))]],
                LAMBDA r : r.score >= minScore) :
        s \in nearestFirst(T, vector) }


-----------------------------------------------------------------------------
(* Rich summarizer: summarizeWithLlm *)

MinTranscriptLength == 20
MinResponseLength   == 3

\* the fallback: extractTurnSummary(messages, config.maxChars), action "new"
ruleBased(ev) == [action |-> "new", summary |-> ev.ruleSummary]

GenerationFailures == {"networkError", "notOk", "malformedPayload"}

\* mutant: the failure of the generation call leaves the function as an exception
summarizeWithLlmUnguarded(ev, gen, refs) ==
    IF ev.transcript.length < MinTranscriptLength
    THEN ruleBased(ev)
    ELSE IF /\ ev.transcript.includesInjection
            /\ ev.transcript.cleanedLength < MinTranscriptLength
    THEN [action |-> "skip", summary |-> <<>>]
    ELSE IF gen.kind \in GenerationFailures
    THEN [action |-> "exception", summary |-> <<>>]
    ELSE LET text == trim(gen.text)
         IN  IF Len(text) < MinResponseLength
             THEN ruleBased(ev)
             ELSE IF Len(refs) > 0
             THEN parseDedupResponse(text, refs)
             ELSE [action |-> "new", summary |-> text]

\* summarizeWithLlm(messages, config, logger, recentEntries), the outcome of the
\* generation call given: a network error, a status that is not OK and a payload
\* that does not parse all end in the catch block; a payload without text, or
\* with a text of fewer than 3 characters, takes the same fallback
summarizeWithLlm(ev, gen, refs) ==
    IF ev.transcript.length < MinTranscriptLength
    THEN ruleBased(ev)
    ELSE IF /\ ev.transcript.includesInjection
            /\ ev.transcript.cleanedLength < MinTranscriptLength
    THEN [action |-> "skip", summary |-> <<>>]
    ELSE IF gen.kind \in GenerationFailures
    THEN ruleBased(ev)
    ELSE LET text == trim(gen.text)
         IN  IF Len(text) < MinResponseLength
             THEN ruleBased(ev)
             ELSE IF Len(refs) > 0
             THEN parseDedupResponse(text, refs)
             ELSE [action |-> "new", summary |-> text]

\* the transcript inside the <transcript> tags of the prompt: the function puts
\* `transcript` there, the text it has before the injected blocks are stripped
promptTranscript(ev) ==
    [length |-> ev.transcript.length, includesInjection |-> ev.transcript.includesInjection]

\* whether the generation service was called at all
generationCalled(ev) ==
    /\ ev.transcript.length >= MinTranscriptLength
    /\ ~(ev.transcript.includesInjection /\ ev.transcript.cleanedLength < MinTranscriptLength)

-----------------------------------------------------------------------------
(* Capture handler: api.on("agent_end") *)

\* detectSessionType(sessionKey), on the session keys of the model
detectSessionType(sessionKey) ==
    CASE sessionKey = "agent:main:abc"   -> "dm"
      [] sessionKey = "cron:nightly"    -> "cron"
      [] sessionKey = "tg:group:42"     -> "group"
      [] OTHER                          -> "unknown"

RecentForDedup == 3

\* the early returns before the try block: no messages, a trivial turn,
\* an excluded session
captureDeclined(ev, config) ==
    \/ ev.messages = "none"
    \/ config.skipTrivial /\ ev.trivial
    \/ ev.sessionKey \in config.skipSessions

\* mutant: the short-summary test is missing
summaryTooShortNever(result) == FALSE

\* if (!summary || summary.length < 10) return;
summaryTooShort(result) == Len(result.summary) < MinSummaryLength

\* mutant: an update is stored like a new entry, the old one stays
deletesTargetNever(result) == FALSE

\* if (result.action === "update" && result.replaceId)
deletesTarget(result) ==
    /\ result.action = "update"
    /\ "replaceId" \in DOMAIN result
    /\ result.replaceId # ""

\* the steps of the handlers that call an external service
HandlerSteps == {"getRecent", "summarize", "deleteById", "embed", "store",
                 "pruneOlderThan", "fetch", "search", "timeline"}

\* mutant: the recency fetch of the capture handler is made before the try block
inTryAfterFetch(step) == step # "getRecent"

\* whether the call of this step is made inside the handler's try block
inTry(step) == step \in HandlerSteps

\* the row the handler hands to store.store
newEntry(ev, summary, vector, now) ==
    [summary |-> summary, vector |-> vector, sessionKey |-> ev.sessionKey,
     sessionType |-> detectSessionType(ev.sessionKey), timestamp |-> now,
     hasToolCalls |-> ev.hasToolCalls, hasDecision |-> ev.hasDecision,
     topics |-> ev.topics]

-----------------------------------------------------------------------------
(* Inputs of the plugin specification: the store, the configuration, the
   event and what the external services answer *)

\* the plugin configuration (parseConfig), one setting of it
Cfg ==
    [mode |-> "llm", windowHours |-> 8, recentCount |-> 1, relevantCount |-> 1,
     maxInjectEntries |-> 2, maxInjectTokens |-> 60, decayHalfLifeHours |-> 2,
     recentWindowHours |-> 2, skipTrivial |-> TRUE, skipSessions |-> {"cron:nightly"},
     timelineEnabled |-> TRUE]

\* the token budgets of the recall: none, one, two lines fit
TokenBudgets == {48, 60, 70}

\* Date.now() when the host fires the event, and how long the handler may take
StartClock == 10 * MsPerHour

MaxElapsedHours == 1

Vectors == { <<1, 0>>, <<0, 2>> }

PluginIds == <<"p1", "p2", "p3", "p4", "p5", "p6">>

\* the hour at which the i-th stored entry was captured: two recent ones, one
\* that leaves the window during the invocation, one that has left it, ...
CapturedAt == <<10, 9, 2, 1, 8, 7>>

StoredRow(i) ==
    [id |-> PluginIds[i], timestamp |-> CapturedAt[i] * MsPerHour,
     summary |-> IF i % 2 = 1 THEN Summaries.blogA ELSE Summaries.lunch,
     vector |-> IF i % 2 = 1 THEN <<1, 0>> ELSE <<0, 1>>,
     sessionKey |-> "agent:main:abc", sessionType |-> "dm",
     hasToolCalls |-> FALSE, hasDecision |-> FALSE, topics |-> {"bugfix"}]

MaxStored == 4

\* the stores the event may find
Tables == { { StoredRow(i) : i \in 1..k } : k \in 0..MaxStored }

\* ids randomUUID() gives, in the order it gives them
NewIds == <<"n1", "n2", "n3", "n4", "n5", "n6">>

RuleSummaries ==
    { <<"a","s","k","e","d"," ","-",">"," ","d","o","n","e">>,
      <<"h","i"," ","-",">"," ","y","o">> }

\* the transcript of the turn (buildTranscript): its length, whether it holds an
\* injected context block, and its length without the block
Transcripts ==
    { [length |-> 40, includesInjection |-> FALSE, cleanedLength |-> 40],
      [length |-> 19, includesInjection |-> FALSE, cleanedLength |-> 19],
      [length |-> 40, includesInjection |-> TRUE,  cleanedLength |-> 19],
      [length |-> 40, includesInjection |-> TRUE,  cleanedLength |-> 20] }

OrdinaryTurn ==
    [messages |-> "some", trivial |-> FALSE, sessionKey |-> "agent:main:abc",
     hasToolCalls |-> TRUE, hasDecision |-> FALSE, topics |-> {"git"},
     transcript |-> [length |-> 40, includesInjection |-> FALSE, cleanedLength |-> 40],
     ruleSummary |-> <<"a","s","k","e","d"," ","-",">"," ","d","o","n","e">>]

\* the "agent_end" events: the ordinary turn and its variations
CaptureEvents ==
    { [OrdinaryTurn EXCEPT !.transcript = t, !.ruleSummary = r] :
        t \in Transcripts, r \in RuleSummaries }
    \cup { [OrdinaryTurn EXCEPT !.messages = "none"],
           [OrdinaryTurn EXCEPT !.trivial = TRUE],
           [OrdinaryTurn EXCEPT !.sessionKey = "cron:nightly"],
           [OrdinaryTurn EXCEPT !.sessionKey = "tg:group:42"] }

\* the responses of the generation service the capture is run against
ClassifierParts ==
    { p \in UpdateParts : p.lead = <<>> /\ p.trail = <<>> /\ p.word = KeywordUpdate }
    \cup { p \in NewParts : p.lead = <<>> /\ p.trail = <<>> /\ p.gap = <<" ">> }
    \cup SkipParts
    \cup { p \in OtherParts : p.lead = <<>> /\ p.trail = <<>> }

\* what the generation call may end in
Generations ==
    { [kind |-> k, parts |-> [shape |-> "none"], text |-> <<>>] :
        k \in GenerationFailures \cup {"noText"} }
    \cup { [kind |-> "text", parts |-> p, text |-> Compose(p)] : p \in ClassifierParts }

-----------------------------------------------------------------------------
(* Presentation: formatSlidingContext, by the lengths of the strings (locale en) *)

\* Math.ceil(text.length / 4)
estimateTokens(length) == (length + 3) \div 4

\* the number of characters of a non-negative integer in a template string
digitsOf(n) == IF n < 10 THEN 1 ELSE IF n < 100 THEN 2 ELSE IF n < 1000 THEN 3 ELSE 4

PreambleLength             == 97   \* contextPreamble
SectionChronologicalLength == 33   \* sectionChronological
SectionOlderRelevantLength == 23   \* sectionOlderRelevant
FooterLength               == 18   \* </sliding-context>
HeaderFrameLength          == 40   \* <sliding-context window="h" entries="">\n
SeparatorLength            == 4    \* the separator between time and label, with its spaces
JustNowLength              == 8    \* timeJustNow
MinutesAgoLength           == 7    \* "min ago"
HoursAgoLength             == 5    \* "h ago"
DaysAgoLength              == 5    \* "d ago"

\* formatTimeAgo(timestamp, now, locale), the length of its string
timeAgoLength(timestamp, now) ==
    LET diffMs  == now - timestamp
        minutes == diffMs \div 60000
        hours   == diffMs \div 3600000
        days    == diffMs \div 86400000
    IN  IF minutes < 1 THEN JustNowLength
        ELSE IF minutes < 60 THEN digitsOf(minutes) + MinutesAgoLength
        ELSE IF hours < 24 THEN digitsOf(hours) + HoursAgoLength
        ELSE digitsOf(days) + DaysAgoLength

\* sessionLabel(sessionType, locale), the length of its string
labelLength(sessionType) ==
    CASE sessionType = "dm"       -> 2
      [] sessionType = "group"    -> 5
      [] sessionType = "cron"     -> 4
      [] sessionType = "webhook"  -> 4
      [] sessionType = "isolated" -> 4
      [] OTHER                    -> 7

\* `\n${formatEntryLine(entry, now, locale)}`, its length
lineLength(entry, now) ==
    1 + 1 + timeAgoLength(entry.timestamp, now) + SeparatorLength
      + labelLength(entry.sessionType) + 2 + Len(entry.summary)

\* the loop over the entries of one section: lines are added while the budget
\* holds them, and the loop stops at the first line that does not fit
RECURSIVE takeLines(_, _, _, _, _, _)
takeLines(entries, i, tokenCount, maxTokens, now, lines) ==
    IF i > Len(entries) THEN [lines |-> lines, tokenCount |-> tokenCount]
    ELSE LET lineTokens == estimateTokens(lineLength(entries[i], now))
         IN  IF tokenCount + lineTokens > maxTokens
             THEN [lines |-> lines, tokenCount |-> tokenCount]
             ELSE takeLines(entries, i + 1, tokenCount + lineTokens, maxTokens, now,
                            Append(lines, entries[i]))

NoteFrameLength == 44   \* <!-- sliding-context: ~ tokens,  entries -->

\* s.tokenFooter(tokens, entries), the length of its string
noteLength(tokens, entries) == NoteFrameLength + digitsOf(tokens) + digitsOf(entries)

\* lines.join(""), the length of the lines of the entries
RECURSIVE linesLength(_, _)
linesLength(lines, now) ==
    IF lines = <<>> THEN 0
    ELSE lineLength(Head(lines), now) + linesLength(Tail(lines), now)

\* the section pushed for the lines taken: its header and its lines, or nothing
sectionLength(headerLength, lines, now) ==
    IF lines = <<>> THEN 0 ELSE 2 + headerLength + linesLength(lines, now)

\* `${header}${sections.join("")}\n${note}\n${footer}`, its length
blockLength(header, sections, tokenCount, totalEntries) ==
    header + sections + 1 + noteLength(tokenCount, totalEntries) + 1 + FooterLength

\* formatSlidingContext(chronological, ranked, options) at time `now`: the
\* entries whose lines the block holds, the token count of its note and the
\* length of the block; `empty` stands for the empty string
formatSlidingContext(chron, rank, options, now) ==
    LET totalEntries == Len(chron) + Len(rank)
        header == HeaderFrameLength + digitsOf(options.windowHours)
                  + digitsOf(totalEntries) + PreambleLength
        t0 == estimateTokens(header) + estimateTokens(FooterLength)
        t1 == IF Len(chron) > 0
              THEN t0 + estimateTokens(2 + SectionChronologicalLength) ELSE t0
        c  == takeLines(chron, 1, t1, options.maxTokens, now, <<>>)
        t2 == IF Len(rank) > 0
              THEN c.tokenCount + estimateTokens(2 + SectionOlderRelevantLength)
              ELSE c.tokenCount
        r  == takeLines(rank, 1, t2, options.maxTokens, now, <<>>)
        sections == sectionLength(SectionChronologicalLength, c.lines, now)
                    + sectionLength(SectionOlderRelevantLength, r.lines, now)
    IN  [empty |-> c.lines = <<>> /\ r.lines = <<>>,
         chronological |-> c.lines, ranked |-> r.lines,
         tokenCount |-> r.tokenCount, totalEntries |-> totalEntries,
         length |-> IF c.lines = <<>> /\ r.lines = <<>> THEN 0
                    ELSE blockLength(header, sections, r.tokenCount, totalEntries)]

-----------------------------------------------------------------------------
(* Recall handler: api.on("before_agent_start") *)

MinPromptLength == 5

SearchMinScore == 300   \* 0.3, in thousandths

\* the "before_agent_start" events
RecallEvents ==
    [promptLength : {4, 12}, sessionKey : {"agent:main:abc", "tg:group:42"}]

NoInjection == [kind |-> "nothing"]

\* what generateTimeline may end in
TimelineOutcomes == {"text", "empty", "throws"}

InitPlugin ==
    /\ hook \in {"agent_end", "before_agent_start"}
    /\ plPc = "start"
    /\ table \in Tables
    /\ table0 = table
    /\ clock = StartClock
    /\ IF hook = "agent_end"
       THEN /\ event \in CaptureEvents
            /\ cfg \in { [Cfg EXCEPT !.mode = m] : m \in {"llm", "rule-based"} }
       ELSE /\ event \in RecallEvents
            /\ cfg \in { [Cfg EXCEPT !.maxInjectTokens = t] : t \in TokenBudgets }
    /\ cpRecentEntries = <<>>
    /\ generation = NotCalled
    /\ cpResult = NoResult
    /\ cpVector = <<>>
    /\ caught = "none"
    /\ outcome = "pending"
    /\ uuids = 0
    /\ rc = NoLocals
    /\ injected = NoInjection
    /\ pruneResult = "none"
    /\ ScoreIdle
    /\ RaceIdle
    /\ RecentIdle
    /\ RankIdle
    /\ ParseIdle
    /\ CleanupIdle

\* an external call of the handler throws: the catch block logs a warning and the
\* handler returns; outside a try block the exception reaches the host
Throws(step) ==
    /\ plPc' = "done"
    /\ IF inTry(step)
       THEN caught' = step /\ outcome' = "returned"
       ELSE caught' = caught /\ outcome' = "threw"

\* where the handler goes once it has the summarizer's result: the SKIP return,
\* the short-summary return, the deletion of the update's target, the embedding
afterSummary(result) ==
    IF result.action = "skip" THEN "done"
    ELSE IF summaryTooShort(result) THEN "done"
    ELSE IF deletesTarget(result) THEN "deleteById"
    ELSE "embed"

\* time passes while the handler waits for an external call
Tick ==
    /\ plPc \notin {"idle", "done"}
    /\ clock < StartClock + MaxElapsedHours * MsPerHour
    /\ clock' = clock + MsPerHour
    /\ UNCHANGED <<hook, pruneResult, plPc, table, table0, event, cfg, cpRecentEntries, generation,
                   cpResult, cpVector, caught, outcome, uuids, rc, injected,
                   scoreVars, rankVars, parseVars, cleanupVars, raceVars, recentVars>>

\* api.on("agent_end"), up to its first external call
AgentEnd ==
    /\ hook = "agent_end"
    /\ plPc = "start"
    /\ IF captureDeclined(event, cfg)
       THEN /\ plPc' = "done"
            /\ outcome' = "returned"
            /\ UNCHANGED cpResult
       ELSE IF cfg.mode = "llm"
       THEN /\ plPc' = "getRecent"
            /\ UNCHANGED <<outcome, cpResult>>
       ELSE /\ cpResult' = ruleBased(event)
            /\ plPc' = afterSummary(ruleBased(event))
            /\ outcome' = IF afterSummary(ruleBased(event)) = "done"
                          THEN "returned" ELSE outcome
    /\ UNCHANGED <<hook, pruneResult, table, table0, clock, event, cfg, cpRecentEntries, generation,
                   cpVector, caught, uuids, rc, injected, scoreVars, rankVars, parseVars, cleanupVars, raceVars, recentVars>>

\* const recentEntries = await store.getRecent(3, cfg.windowHours)
CaptureGetRecent ==
    /\ plPc = "getRecent"
    /\ \/ /\ \E r \in getRecent(table, RecentForDedup, cfg.windowHours, clock) :
                cpRecentEntries' = r
          /\ plPc' = "summarize"
          /\ UNCHANGED <<caught, outcome>>
       \/ /\ Throws("getRecent")
          /\ UNCHANGED cpRecentEntries
    /\ UNCHANGED <<hook, pruneResult, table, table0, clock, event, cfg, generation, cpResult,
                   cpVector, uuids, rc, injected, scoreVars, rankVars, parseVars, cleanupVars, raceVars, recentVars>>

\* result = await summarizeWithLlm(messages, {...}, api.logger, recentEntries),
\* and the handler up to its next external call
CaptureSummarize ==
    /\ plPc = "summarize"
    /\ \E g \in (IF generationCalled(event) THEN Generations ELSE {NotCalled}) :
          LET r == summarizeWithLlm(event, g, cpRecentEntries)
          IN  /\ generation' = IF generationCalled(event)
                                THEN g @@ [prompt |-> promptTranscript(event)]
                                ELSE g
              /\ IF r.action = "exception"
                 THEN Throws("summarize") /\ UNCHANGED cpResult
                 ELSE /\ cpResult' = r
                      /\ plPc' = afterSummary(r)
                      /\ outcome' = IF afterSummary(r) = "done" THEN "returned" ELSE outcome
                      /\ UNCHANGED caught
    /\ UNCHANGED <<hook, pruneResult, table, table0, clock, event, cfg, cpRecentEntries,
                   cpVector, uuids, rc, injected, scoreVars, rankVars, parseVars, cleanupVars, raceVars, recentVars>>

\* await store.deleteById(result.replaceId)
CaptureDelete ==
    /\ plPc = "deleteById"
    /\ \/ /\ table' = deleteById(table, cpResult.replaceId)
          /\ plPc' = "embed"
          /\ UNCHANGED <<caught, outcome>>
       \/ /\ Throws("deleteById")
          /\ UNCHANGED table
    /\ UNCHANGED <<hook, pruneResult, table0, clock, event, cfg, cpRecentEntries, generation, cpResult,
                   cpVector, uuids, rc, injected, scoreVars, rankVars, parseVars, cleanupVars, raceVars, recentVars>>

\* const vector = await embeddings.embed(summary)
CaptureEmbed ==
    /\ plPc = "embed"
    /\ \/ /\ \E v \in Vectors : cpVector' = v
          /\ plPc' = "store"
          /\ UNCHANGED <<caught, outcome>>
       \/ /\ Throws("embed")
          /\ UNCHANGED cpVector
    /\ UNCHANGED <<hook, pruneResult, table, table0, clock, event, cfg, cpRecentEntries, generation,
                   cpResult, uuids, rc, injected, scoreVars, rankVars, parseVars, cleanupVars, raceVars, recentVars>>

\* await store.store({summary, vector, ..., timestamp: Date.now(), ...})
CaptureStore ==
    /\ plPc = "store"
    /\ \/ /\ table' = storeEntry(table, newEntry(event, cpResult.summary, cpVector, clock),
                                 NewIds[uuids + 1])
          /\ uuids' = uuids + 1
          /\ plPc' = "pruneOlderThan"
          /\ UNCHANGED <<caught, outcome>>
       \/ /\ Throws("store")
          /\ UNCHANGED <<table, uuids>>
    /\ UNCHANGED <<hook, pruneResult, table0, clock, event, cfg, cpRecentEntries, generation, cpResult,
                   cpVector, rc, injected, scoreVars, rankVars, parseVars, cleanupVars, raceVars, recentVars>>

\* await store.pruneOlderThan(cfg.windowHours): a failure of the deletion is
\* swallowed by pruneOlderThan itself
CapturePrune ==
    /\ plPc = "pruneOlderThan"
    /\ \/ /\ table' = pruneOlderThan(table, cfg.windowHours, clock)
          /\ pruneResult' = "deleted"
       \/ /\ UNCHANGED table
          /\ pruneResult' = "swallowed"
    /\ plPc' = "done"
    /\ outcome' = "returned"
    /\ UNCHANGED <<hook, table0, clock, event, cfg, cpRecentEntries, generation, cpResult,
                   cpVector, caught, uuids, rc, injected, scoreVars, rankVars, parseVars,
                   cleanupVars, raceVars, recentVars>>

\* api.on("before_agent_start"), up to its first external call
BeforeAgentStart ==
    /\ hook = "before_agent_start"
    /\ plPc = "start"
    /\ IF event.promptLength < MinPromptLength
       THEN /\ plPc' = "done"
            /\ outcome' = "returned"
            /\ UNCHANGED rc
       ELSE /\ plPc' = "fetch"
            /\ rc' = [rc EXCEPT !.now = clock]
            /\ UNCHANGED outcome
    /\ UNCHANGED <<hook, pruneResult, table, table0, clock, event, cfg, cpRecentEntries, generation,
                   cpResult, cpVector, caught, uuids, injected,
                   scoreVars, rankVars, parseVars, cleanupVars, raceVars, recentVars>>

\* const [recent, vector] = await Promise.all([store.getRecent(...), embeddings.embed(prompt)])
RecallFetch ==
    /\ plPc = "fetch"
    /\ \/ /\ \E r \in getRecent(table, cfg.recentCount + cfg.relevantCount,
                                cfg.windowHours, clock) :
             \E v \in Vectors :
                rc' = [rc EXCEPT !.recent = r, !.vector = v]
          /\ plPc' = "search"
          /\ UNCHANGED <<caught, outcome>>
       \/ /\ Throws("fetch")
          /\ UNCHANGED rc
    /\ UNCHANGED <<hook, pruneResult, table, table0, clock, event, cfg, cpRecentEntries, generation,
                   cpResult, cpVector, uuids, injected,
                   scoreVars, rankVars, parseVars, cleanupVars, raceVars, recentVars>>

\* the handler from the result of store.search to its next external call:
\* deduplicateAndRank, the return on an empty list, the split, the format and
\* the return on an empty block
afterSearch(rel, locals, config, ev, now) ==
    LET m == deduplicateAndRank(locals.recent, rel,
                 [currentSession |-> ev.sessionKey, now |-> locals.now,
                  maxEntries |-> config.maxInjectEntries,
                  decayHalfLifeHours |-> config.decayHalfLifeHours]).result
        s == splitChronologicalAndRanked(m, config.recentWindowHours, locals.now)
        context == formatSlidingContext(s.chronological, s.ranked,
                       [maxTokens |-> config.maxInjectTokens,
                        windowHours |-> config.windowHours], now)
    IN  IF Len(m) = 0
        THEN [locals EXCEPT !.relevant = rel, !.merged = m, !.returns = TRUE]
        ELSE [locals EXCEPT !.relevant = rel, !.merged = m,
                            !.chronological = s.chronological, !.ranked = s.ranked,
                            !.context = context, !.returns = context.empty]

\* const relevant = await store.search(vector, cfg.relevantCount, 0.3), and the
\* handler up to its next external call
RecallSearch ==
    /\ plPc = "search"
    /\ \/ /\ \E rel \in search(table, rc.vector, cfg.relevantCount, SearchMinScore) :
                LET locals == afterSearch(rel, rc, cfg, event, clock)
                IN  /\ rc' = locals
                    /\ IF locals.returns
                       THEN /\ plPc' = "done"
                            /\ outcome' = "returned"
                            /\ UNCHANGED injected
                       ELSE IF cfg.timelineEnabled
                       THEN /\ plPc' = "timeline"
                            /\ UNCHANGED <<outcome, injected>>
                       ELSE /\ plPc' = "done"
                            /\ outcome' = "returned"
                            /\ injected' = [kind |-> "prependContext",
                                            context |-> locals.context, timeline |-> FALSE]
          /\ UNCHANGED caught
       \/ /\ Throws("search")
          /\ UNCHANGED <<rc, injected>>
    /\ UNCHANGED <<hook, pruneResult, table, table0, clock, event, cfg, cpRecentEntries, generation,
                   cpResult, cpVector, uuids, scoreVars, rankVars, parseVars, cleanupVars, raceVars, recentVars>>

\* const timeline = await generateTimeline(...) inside its own try block, whose
\* catch is silent; then return { prependContext: fullContext }
RecallTimeline ==
    /\ plPc = "timeline"
    /\ \E t \in TimelineOutcomes :
          injected' = [kind |-> "prependContext", context |-> rc.context,
                       timeline |-> (t = "text")]
    /\ plPc' = "done"
    /\ outcome' = "returned"
    /\ UNCHANGED <<hook, pruneResult, table, table0, clock, event, cfg, cpRecentEntries, generation,
                   cpResult, cpVector, caught, uuids, rc, scoreVars, rankVars, parseVars, cleanupVars, raceVars, recentVars>>

NextPlugin ==
    \/ Tick
    \/ AgentEnd
    \/ CaptureGetRecent
    \/ CaptureSummarize
    \/ CaptureDelete
    \/ CaptureEmbed
    \/ CaptureStore
    \/ CapturePrune
    \/ BeforeAgentStart
    \/ RecallFetch
    \/ RecallSearch
    \/ RecallTimeline

SpecPlugin == InitPlugin /\ [][NextPlugin]_vars

-----------------------------------------------------------------------------
(* Store adapter on its own: calls of ContextStore.getRecent *)

\* a store that holds one row more than a scan of getRecent fetches
BigStoreRows == OverfetchFloor + 1

\* the i-th row of the big store, captured i minutes before the first call
BigRow(i) ==
    [id |-> "b" \o ToString(i), timestamp |-> StartClock - i * 60000,
     summary |-> Summaries.lunch, vector |-> <<1, 0>>,
     sessionKey |-> "agent:main:abc", sessionType |-> "dm",
     hasToolCalls |-> FALSE, hasDecision |-> FALSE, topics |-> {}]

BigStore == { BigRow(i) : i \in 1..BigStoreRows }

MaxLimit == 3

RecentLimits == 1..MaxLimit

RecentWindowsHours == {1, 8}

RecentClocks == {StartClock, StartClock + MsPerHour}

InitRecent ==
    /\ grPc = "call"
    /\ table \in Tables \cup {BigStore}
    /\ table0 = table
    /\ uuids = 0
    /\ grLimit \in RecentLimits
    /\ grWindowHours \in RecentWindowsHours
    /\ grNow \in RecentClocks
    /\ grResult = <<>>
    /\ HandlersIdle
    /\ CleanupIdle
    /\ RaceIdle
    /\ ScoreIdle
    /\ RankIdle
    /\ ParseIdle

\* await store.getRecent(limit, windowHours)
GetRecent ==
    /\ grPc = "call"
    /\ \E r \in getRecent(table, grLimit, grWindowHours, grNow) : grResult' = r
    /\ grPc' = "returned"
    /\ UNCHANGED <<grLimit, grWindowHours, grNow, pluginVars, cleanupVars, raceVars,
                   scoreVars, rankVars, parseVars>>

NextRecent == GetRecent

SpecRecent == InitRecent /\ [][NextRecent]_vars

-----------------------------------------------------------------------------
(* Concurrent captures: agent_end handlers of different sessions on one store *)

\* the invocations in flight
MaxInvocations == 2

Invocations == 1..MaxInvocations

\* the turn each invocation captures, of a session of its own
RaceEvent(i) ==
    IF i % 2 = 1 THEN OrdinaryTurn ELSE [OrdinaryTurn EXCEPT !.sessionKey = "tg:group:42"]

\* the answers of the generation service the invocations are run against: an
\* update of the first or second reference entry, a new entry, a skip, a failure
RaceGenerations ==
    { g \in Generations :
        \/ g.kind = "notOk"
        \/ /\ g.kind = "text"
           /\ g.parts.shape \in {"update", "new"}
           /\ g.parts.body = <<"m","e","r","g","e","d"," ","t","e","x","t">>
           /\ g.parts.gap = <<" ">>
           /\ g.parts.shape = "update" => g.parts.index.digits \in { <<"1">>, <<"2">> }
           /\ g.parts.shape = "new" => g.parts.word = KeywordNew
        \/ /\ g.kind = "text"
           /\ g.parts.shape = "skip"
           /\ g.parts.word = KeywordSkip
           /\ g.parts.trail = <<>>
           /\ g.parts.lead = <<>> }

\* an invocation that has passed the early returns of the handler
Started == [pc |-> "getRecent", recentEntries |-> <<>>, result |-> NoResult,
            vector |-> <<>>, caught |-> "none"]

InitRace ==
    /\ invocations = [i \in Invocations |-> Started]
    /\ table \in Tables
    /\ table0 = table
    /\ uuids = 0
    /\ HandlersIdle
    /\ CleanupIdle
    /\ RecentIdle
    /\ ScoreIdle
    /\ RankIdle
    /\ ParseIdle

\* the catch block of the handler: a warning is logged and the handler returns
RaceThrows(i, step) ==
    invocations' = [invocations EXCEPT ![i].pc = "done", ![i].caught = step]

\* const recentEntries = await store.getRecent(3, cfg.windowHours)
RaceGetRecent(i) ==
    /\ invocations[i].pc = "getRecent"
    /\ \/ \E r \in getRecent(table, RecentForDedup, Cfg.windowHours, StartClock) :
             invocations' = [invocations EXCEPT ![i].recentEntries = r,
                                                ![i].pc = "summarize"]
       \/ RaceThrows(i, "getRecent")
    /\ UNCHANGED <<table, table0, uuids, handlerVars, cleanupVars, recentVars,
                   scoreVars, rankVars, parseVars>>

\* result = await summarizeWithLlm(...), and the handler up to its next call
RaceSummarize(i) ==
    /\ invocations[i].pc = "summarize"
    /\ \E g \in RaceGenerations :
          LET r == summarizeWithLlm(RaceEvent(i), g, invocations[i].recentEntries)
          IN  invocations' = [invocations EXCEPT ![i].result = r,
                                                 ![i].pc = afterSummary(r)]
    /\ UNCHANGED <<table, table0, uuids, handlerVars, cleanupVars, recentVars,
                   scoreVars, rankVars, parseVars>>

\* await store.deleteById(result.replaceId)
RaceDelete(i) ==
    /\ invocations[i].pc = "deleteById"
    /\ \/ /\ table' = deleteById(table, invocations[i].result.replaceId)
          /\ invocations' = [invocations EXCEPT ![i].pc = "embed"]
       \/ /\ RaceThrows(i, "deleteById")
          /\ UNCHANGED table
    /\ UNCHANGED <<table0, uuids, handlerVars, cleanupVars, recentVars,
                   scoreVars, rankVars, parseVars>>

\* const vector = await embeddings.embed(summary)
RaceEmbed(i) ==
    /\ invocations[i].pc = "embed"
    /\ \/ \E v \in Vectors :
             invocations' = [invocations EXCEPT ![i].vector = v, ![i].pc = "store"]
       \/ RaceThrows(i, "embed")
    /\ UNCHANGED <<table, table0, uuids, handlerVars, cleanupVars, recentVars,
                   scoreVars, rankVars, parseVars>>

\* await store.store({...})
RaceStore(i) ==
    /\ invocations[i].pc = "store"
    /\ \/ /\ table' = storeEntry(table,
                                 newEntry(RaceEvent(i), invocations[i].result.summary,
                                          invocations[i].vector, StartClock),
                                 NewIds[uuids + 1])
          /\ uuids' = uuids + 1
          /\ invocations' = [invocations EXCEPT ![i].pc = "pruneOlderThan"]
       \/ /\ RaceThrows(i, "store")
          /\ UNCHANGED <<table, uuids>>
    /\ UNCHANGED <<table0, handlerVars, cleanupVars, recentVars,
                   scoreVars, rankVars, parseVars>>

\* await store.pruneOlderThan(cfg.windowHours)
RacePrune(i) ==
    /\ invocations[i].pc = "pruneOlderThan"
    /\ \/ table' = pruneOlderThan(table, Cfg.windowHours, StartClock)
       \/ UNCHANGED table
    /\ invocations' = [invocations EXCEPT ![i].pc = "done"]
    /\ UNCHANGED <<table0, uuids, handlerVars, cleanupVars, recentVars,
                   scoreVars, rankVars, parseVars>>

NextRace ==
    \/ \E i \in Invocations : RaceGetRecent(i)
    \/ \E i \in Invocations : RaceSummarize(i)
    \/ \E i \in Invocations : RaceDelete(i)
    \/ \E i \in Invocations : RaceEmbed(i)
    \/ \E i \in Invocations : RaceStore(i)
    \/ \E i \in Invocations : RacePrune(i)

SpecRace == InitRace /\ [][NextRace]_vars

-----------------------------------------------------------------------------
(* Batch consolidator: cosineSimilarity, groupSimilar *)

\* cosineSimilarity(a, b) of two vectors of two components, exactly: the value
\* is dot / sqrt(norms), and 0 when norms = 0
cosineSimilarity(a, b) ==
    [dot   |-> a[1] * b[1] + a[2] * b[2],
     norms |-> (a[1] * a[1] + a[2] * a[2]) * (b[1] * b[1] + b[2] * b[2])]

\* sim >= threshold, the threshold in thousandths
reaches(sim, threshold) ==
    IF sim.norms = 0 THEN 0 >= threshold
    ELSE IF threshold >= 0
    THEN sim.dot >= 0
         /\ 1000 * 1000 * sim.dot * sim.dot >= threshold * threshold * sim.norms
    ELSE sim.dot >= 0
         \/ 1000 * 1000 * sim.dot * sim.dot <= threshold * threshold * sim.norms

\* mutant: an entry that is in a group already is compared again
joinsGroupAgain(a, b, used, threshold) ==
    reaches(cosineSimilarity(a.vector, b.vector), threshold)

\* mutant: the similarity is not tested
joinsGroupUntested(a, b, used, threshold) ==
    b.id \notin used

\* the inner loop's test: b is not used and sim >= threshold
joinsGroup(a, b, used, threshold) ==
    /\ b.id \notin used
    /\ reaches(cosineSimilarity(a.vector, b.vector), threshold)

\* mutant: a seed without a similar entry is a group too
keepsGroupOfOne(group) == Len(group) >= 1

\* if (group.length > 1) groups.push(group)
keepsGroup(group) == Len(group) > 1

\* the inner loop (j from i + 1) of groupSimilar for the seed a
RECURSIVE collectGroup(_, _, _, _, _, _)
collectGroup(list, a, j, group, used, threshold) ==
    IF j > Len(list) THEN [group |-> group, used |-> used]
    ELSE IF joinsGroup(a, list[j], used, threshold)
    THEN collectGroup(list, a, j + 1, Append(group, list[j]), used \cup {list[j].id},
                      threshold)
    ELSE collectGroup(list, a, j + 1, group, used, threshold)

\* the outer loop (i) of groupSimilar
RECURSIVE groupLoop(_, _, _, _, _)
groupLoop(list, i, used, groups, threshold) ==
    IF i > Len(list) THEN groups
    ELSE IF list[i].id \in used
    THEN groupLoop(list, i + 1, used, groups, threshold)
    ELSE LET g == collectGroup(list, list[i], i + 1, <<list[i]>>,
                               used \cup {list[i].id}, threshold)
         IN  groupLoop(list, i + 1, g.used,
                       IF keepsGroup(g.group) THEN Append(groups, g.group) ELSE groups,
                       threshold)

\* groupSimilar(entries, threshold)
groupSimilar(list, threshold) == groupLoop(list, 1, {}, <<>>, threshold)

-----------------------------------------------------------------------------
(* Batch consolidator: mergeWithLlm, runCleanup *)

MinMergedLength == 10

\* what the generation call of mergeWithLlm may end in: a usable text, a text
\* that is too short, a failure
MergeOutcomes ==
    { [kind |-> "text", text |-> <<"m","e","r","g","e","d"," ","s","u","m","m","a","r","y">>],
      [kind |-> "text", text |-> <<"o","k">>],
      [kind |-> "throws", text |-> <<>>] }

\* mergeWithLlm(entries, apiKey, locale) once the generation call has answered:
\* the text, or the summary of the most recent entry when the text has fewer
\* than 10 characters
mergedSummaryOf(group, answer) ==
    IF Len(answer.text) < MinMergedLength
    THEN sortNewestFirst(group)[1].summary
    ELSE answer.text

\* the row runCleanup hands to store.store for a group
mergedEntry(group, summary, vector) ==
    LET newest == sortNewestFirst(group)[1]
    IN  [summary |-> summary, vector |-> vector,
         sessionKey |-> newest.sessionKey, sessionType |-> newest.sessionType,
         timestamp |-> newest.timestamp,
         hasToolCalls |-> \E i \in DOMAIN group : group[i].hasToolCalls,
         hasDecision |-> \E i \in DOMAIN group : group[i].hasDecision,
         topics |-> UNION { group[i].topics : i \in DOMAIN group }]

\* ContextStore.getAll(): every row, in the store's scan order
getAll(T) ==
    { s \in [1..Cardinality(T) -> T] : \A i, j \in 1..Cardinality(T) : i # j => s[i] # s[j] }

\* (totalRemoved += group.length - 1) over all groups
RECURSIVE removedBy(_)
removedBy(groups) ==
    IF groups = <<>> THEN 0 ELSE (Len(Head(groups)) - 1) + removedBy(Tail(groups))

-----------------------------------------------------------------------------
(* Inputs of the consolidator specification *)

CleanupIds == <<"c1", "c2", "c3", "c4", "c5", "c6">>

\* the vectors of the stored entries: the first two are similar, the third is
\* similar to none of them, the fourth is similar to the second only, ...
CleanupVectors == << <<1, 0>>, <<2, 1>>, <<0, 1>>, <<1, 1>>, <<1, 2>>, <<2, 0>> >>

CleanupHours == <<5, 7, 6, 7, 4, 3>>

CleanupRow(i) ==
    [id |-> CleanupIds[i], timestamp |-> CleanupHours[i] * MsPerHour,
     summary |-> IF i % 2 = 1 THEN Summaries.blogA ELSE Summaries.blogB,
     vector |-> CleanupVectors[i],
     sessionKey |-> IF i = 2 THEN "tg:group:42" ELSE "agent:main:abc",
     sessionType |-> IF i = 2 THEN "group" ELSE "dm",
     hasToolCalls |-> (i = 1), hasDecision |-> (i = 4),
     topics |-> IF i % 2 = 1 THEN {"bugfix"} ELSE {"blogging"}]

MaxRows == 4

CleanupTables == { { CleanupRow(i) : i \in 1..k } : k \in 0..MaxRows }

\* the command lines: --similarity in thousandths (default 0.85), --dry-run,
\* and whether --db-path exists
CleanupArgs ==
    { [similarity |-> 850, dryRun |-> FALSE, dbExists |-> TRUE],
      [similarity |-> 850, dryRun |-> TRUE,  dbExists |-> TRUE],
      [similarity |-> 700, dryRun |-> FALSE, dbExists |-> TRUE],
      [similarity |-> 850, dryRun |-> FALSE, dbExists |-> FALSE] }

\* the vectors the embedding service may give a merged summary
MergedVectors == { <<1, 0>>, <<1, 1>>, <<0, 1>> }

\* the runs of the script, one after the other
RunNumbers == {1, 2}

NoBackup == [taken |-> FALSE, rows |-> {}]

InitCleanup ==
    /\ clPc = "start"
    /\ clArgs \in CleanupArgs
    /\ table \in (IF clArgs.dbExists THEN CleanupTables ELSE {{}})
    /\ table0 = table
    /\ uuids = 0
    /\ clEntries = <<>>
    /\ clGroups = <<>>
    /\ gi = 0
    /\ di = 0
    /\ mergedSummary = <<>>
    /\ clVector = <<>>
    /\ totalRemoved = 0
    /\ backup = NoBackup
    /\ run = 1
    /\ clStatus = "running"
    /\ HandlersIdle
    /\ ScoreIdle
    /\ RaceIdle
    /\ RecentIdle
    /\ RankIdle
    /\ ParseIdle

\* an exception leaves runCleanup: the entry point logs it and exits with 1
CleanupFails ==
    /\ clPc' = "done"
    /\ clStatus' = "failed"

\* mutant: no run takes a backup
takesBackupNever(args) == FALSE

\* if (!args.dryRun) backupDatabase(args.dbPath, args.backupDir)
takesBackup(args) == ~args.dryRun

\* mutant: the dry-run test of the loop is never true
skipsMergeNever(args) == FALSE

\* if (args.dryRun) { totalRemoved += group.length - 1; continue; }
skipsMerge(args) == args.dryRun

\* runCleanup, step 1: the backup (mutating mode only); backupDatabase throws
\* when the path does not exist, and cpSync may throw on its own
RunCleanup ==
    /\ clPc = "start"
    /\ IF ~takesBackup(clArgs)
       THEN clPc' = "getAll" /\ UNCHANGED <<backup, clStatus>>
       ELSE IF clArgs.dbExists
       THEN \/ /\ backup' = [taken |-> TRUE, rows |-> table]
               /\ clPc' = "getAll"
               /\ UNCHANGED clStatus
            \/ CleanupFails /\ UNCHANGED backup
       ELSE CleanupFails /\ UNCHANGED backup
    /\ UNCHANGED <<clArgs, table, table0, uuids, clEntries, clGroups, gi, di, mergedSummary,
                   clVector, totalRemoved, run, handlerVars, scoreVars, rankVars, parseVars, raceVars, recentVars>>

\* runCleanup, steps 2 and 3: await store.getAll(), groupSimilar, and in dry-run
\* mode the whole loop of step 4
CleanupLoad ==
    /\ clPc = "getAll"
    /\ \/ \E list \in getAll(table) :
             LET groups == IF Len(list) < 2 THEN <<>>
                           ELSE groupSimilar(list, clArgs.similarity)
             IN  /\ clEntries' = list
                 /\ clGroups' = groups
                 /\ IF groups = <<>>
                    THEN /\ clPc' = "done"
                         /\ clStatus' = "completed"
                         /\ UNCHANGED <<gi, totalRemoved>>
                    ELSE IF skipsMerge(clArgs)
                    THEN /\ clPc' = "done"
                         /\ clStatus' = "completed"
                         /\ totalRemoved' = removedBy(groups)
                         /\ gi' = Len(groups)
                    ELSE /\ clPc' = "merge"
                         /\ gi' = 1
                         /\ UNCHANGED <<clStatus, totalRemoved>>
       \/ /\ CleanupFails
          /\ UNCHANGED <<clEntries, clGroups, gi, totalRemoved>>
    /\ UNCHANGED <<clArgs, table, table0, uuids, di, mergedSummary, clVector, backup, run,
                   handlerVars, scoreVars, rankVars, parseVars, raceVars, recentVars>>

\* const mergedSummary = await mergeWithLlm(group, ...); const newest = group.sort(...)[0]
CleanupMerge ==
    /\ clPc = "merge"
    /\ \E answer \in MergeOutcomes :
          IF answer.kind = "throws"
          THEN CleanupFails /\ UNCHANGED <<mergedSummary, clGroups, di>>
          ELSE /\ mergedSummary' = mergedSummaryOf(clGroups[gi], answer)
               /\ clGroups' = [clGroups EXCEPT ![gi] = sortNewestFirst(@)]
               /\ di' = 1
               /\ clPc' = "delete"
               /\ UNCHANGED clStatus
    /\ UNCHANGED <<clArgs, table, table0, uuids, clEntries, gi, clVector, totalRemoved,
                   backup, run, handlerVars, scoreVars, rankVars, parseVars, raceVars, recentVars>>

\* for (const entry of group) await store.deleteById(entry.id), one entry
CleanupDelete ==
    /\ clPc = "delete"
    /\ \/ /\ table' = deleteById(table, clGroups[gi][di].id)
          /\ di' = di + 1
          /\ clPc' = IF di = Len(clGroups[gi]) THEN "embed" ELSE "delete"
          /\ UNCHANGED clStatus
       \/ /\ CleanupFails
          /\ UNCHANGED <<table, di>>
    /\ UNCHANGED <<clArgs, table0, uuids, clEntries, clGroups, gi, mergedSummary, clVector,
                   totalRemoved, backup, run, handlerVars, scoreVars, rankVars, parseVars, raceVars, recentVars>>

\* const vector = await emb.embed(mergedSummary)
CleanupEmbed ==
    /\ clPc = "embed"
    /\ \/ /\ \E v \in MergedVectors : clVector' = v
          /\ clPc' = "store"
          /\ UNCHANGED clStatus
       \/ /\ CleanupFails
          /\ UNCHANGED clVector
    /\ UNCHANGED <<clArgs, table, table0, uuids, clEntries, clGroups, gi, di, mergedSummary,
                   totalRemoved, backup, run, handlerVars, scoreVars, rankVars, parseVars, raceVars, recentVars>>

\* await store.store({...}); totalRemoved += group.length - 1; and the next group
CleanupStore ==
    /\ clPc = "store"
    /\ \/ /\ table' = storeEntry(table, mergedEntry(clGroups[gi], mergedSummary, clVector),
                                 NewIds[uuids + 1])
          /\ uuids' = uuids + 1
          /\ totalRemoved' = totalRemoved + Len(clGroups[gi]) - 1
          /\ IF gi = Len(clGroups)
             THEN clPc' = "done" /\ clStatus' = "completed" /\ UNCHANGED gi
             ELSE clPc' = "merge" /\ gi' = gi + 1 /\ UNCHANGED clStatus
       \/ /\ CleanupFails
          /\ UNCHANGED <<table, uuids, totalRemoved, gi>>
    /\ UNCHANGED <<clArgs, table0, clEntries, clGroups, di, mergedSummary, clVector,
                   backup, run, handlerVars, scoreVars, rankVars, parseVars, raceVars, recentVars>>

\* the script is run again, with the same command line, on the store the
\* completed run has left
CleanupAgain ==
    /\ clPc = "done"
    /\ clStatus = "completed"
    /\ run + 1 \in RunNumbers
    /\ run' = run + 1
    /\ clPc' = "start"
    /\ clStatus' = "running"
    /\ table0' = table
    /\ clEntries' = <<>>
    /\ clGroups' = <<>>
    /\ gi' = 0
    /\ di' = 0
    /\ mergedSummary' = <<>>
    /\ clVector' = <<>>
    /\ totalRemoved' = 0
    /\ backup' = NoBackup
    /\ UNCHANGED <<clArgs, table, uuids, handlerVars, scoreVars, rankVars, parseVars, raceVars, recentVars>>

NextCleanup ==
    \/ RunCleanup
    \/ CleanupLoad
    \/ CleanupMerge
    \/ CleanupDelete
    \/ CleanupEmbed
    \/ CleanupStore
    \/ CleanupAgain

SpecCleanup == InitCleanup /\ [][NextCleanup]_vars

-----------------------------------------------------------------------------
(* Vocabulary of the properties *)

IdsOf(list) == { list[i].id : i \in DOMAIN list }

NoDuplicateId(list) ==
    \A i, j \in DOMAIN list : i # j => list[i].id # list[j].id

\* the position of the entry with this id in a list that holds it once
PositionOf(list, id) == CHOOSE i \in DOMAIN list : list[i].id = id

\* `small` can be obtained from `big` by deleting elements
RECURSIVE IsSubsequence(_, _)
IsSubsequence(small, big) ==
    IF small = <<>> THEN TRUE
    ELSE IF big = <<>> THEN FALSE
    ELSE IF Head(small) = Head(big) THEN IsSubsequence(Tail(small), Tail(big))
    ELSE IsSubsequence(small, Tail(big))

\* two entries are near-duplicates: their timestamps lie within the time window
\* of each other and the Jaccard similarity of their significant words reaches
\* the threshold
NearDuplicate(a, b) ==
    /\ a.timestamp - b.timestamp <= DedupWindowMs
    /\ b.timestamp - a.timestamp <= DedupWindowMs
    /\ LET wa == significantWords(a.summary)
           wb == significantWords(b.summary)
       IN  IF wa = {} /\ wb = {} THEN TRUE
           ELSE 1000 * Cardinality(wa \cap wb) >= DedupThreshold * Cardinality(wa \cup wb)

\* the sets of at least two positions of contentDedup's input whose entries are
\* pairwise near-duplicates
Clusters ==
    { S \in SUBSET DOMAIN sortedScored :
        /\ Cardinality(S) >= 2
        /\ \A i, j \in S : NearDuplicate(sortedScored[i], sortedScored[j]) }

\* the first position of a set of positions: in score-descending input, a member
\* with the greatest finalScore
Top(S) == CHOOSE i \in S : \A j \in S : i <= j

ScoreDescending(list) ==
    \A i, j \in DOMAIN list : i < j => list[i].finalScore >= list[j].finalScore

Assembled == rkPc \in {"merged", "split"}

\* the rank of an id in the order of the two input lists: the recency list
\* first, then the semantic list
InputOrder == [i \in 1..(Len(recent) + Len(relevant)) |->
                  IF i <= Len(recent) THEN recent[i] ELSE relevant[i - Len(recent)].entry]

InputRank(id) ==
    CHOOSE i \in DOMAIN InputOrder :
        InputOrder[i].id = id /\ \A j \in 1..(i - 1) : InputOrder[j].id # id

\* the similarity the search returned for an id (its first occurrence)
ReturnedSimilarity(id) ==
    relevant[CHOOSE i \in DOMAIN relevant :
                 relevant[i].entry.id = id
                 /\ \A j \in 1..(i - 1) : relevant[j].entry.id # id].score

-----------------------------------------------------------------------------
(* Properties *)

\* C1: the list deduplicateAndRank returns holds at most one entry per id, also
\* when the two input lists share entries or repeat one; the identity check
\* already leaves one entry per id in the scored union.
C1_AtMostOneEntryPerId ==
    Assembled => NoDuplicateId(scored) /\ NoDuplicateId(merged)

\* C1 witness: an entry that both input lists hold is returned
C1_Witness ==
    /\ Assembled
    /\ \E i \in DOMAIN recent, j \in DOMAIN relevant :
          recent[i].id = relevant[j].entry.id /\ recent[i].id \in IdsOf(merged)
    /\ Len(merged) >= 1

C3_OutputIsSubsequence ==
    Assembled =>
        /\ IsSubsequence(deduped, sortedScored)
        /\ Len(deduped) <= Len(sortedScored)
        /\ \A i \in DOMAIN deduped : \E j \in DOMAIN sortedScored :
              deduped[i] = sortedScored[j]

\* C3 witness: an entry is removed and at least two entries survive
C3_Witness ==
    /\ Assembled
    /\ Len(deduped) < Len(sortedScored)
    /\ Len(deduped) >= 2

\* C4: deduplicateAndRank deduplicates the whole sorted union and truncates
\* after that: the result is the first maxEntries entries of contentDedup's
\* output for the full sorted list, so it has at most maxEntries entries and a
\* removed near-duplicate takes no slot of the budget.
C4_DedupBeforeTruncate ==
    Assembled =>
        /\ Len(sortedScored) = Len(scored)
        /\ IdsOf(sortedScored) = IdsOf(recent) \cup IdsOf([i \in DOMAIN relevant |->
                                                              relevant[i].entry])
        /\ merged = Take(contentDedup(sortedScored, DedupWindowMs, DedupThreshold),
                         params.maxEntries)
        /\ Len(merged) <= params.maxEntries
        /\ Len(merged) = Min(params.maxEntries, Len(deduped))

\* C4 witness: the budget is used up, and an entry behind the budget's first
\* positions of the sorted list is returned in place of a removed near-duplicate
C4_Witness ==
    /\ Assembled
    /\ params.maxEntries >= 1
    /\ Len(merged) = params.maxEntries
    /\ \E i \in DOMAIN merged :
          PositionOf(sortedScored, merged[i].id) > params.maxEntries

\* C5: splitChronologicalAndRanked is a pure partition: every input entry is in
\* exactly one of the two lists, nothing else is in them, and an entry is in
\* chronological exactly when now - timestamp <= recentWindowHours in
\* milliseconds.
C5_SplitIsPartition ==
    rkPc = "split" =>
        /\ Len(chronological) + Len(ranked) = Len(merged)
        /\ \A i \in DOMAIN chronological : \E j \in DOMAIN merged :
              chronological[i] = merged[j]
        /\ \A i \in DOMAIN ranked : \E j \in DOMAIN merged : ranked[i] = merged[j]
        /\ \A i \in DOMAIN merged :
              LET e == merged[i]
                  inChronological == \E j \in DOMAIN chronological : chronological[j] = e
                  inRanked == \E j \in DOMAIN ranked : ranked[j] = e
              IN  /\ inChronological # inRanked
                  /\ inChronological <=>
                         (params.now - e.timestamp <= recentWindowHours * 3600000)

\* C5 witness: both lists are non-empty and an entry exactly at the edge of the
\* window is in chronological
C5_Witness ==
    /\ rkPc = "split"
    /\ ranked # <<>>
    /\ \E i \in DOMAIN chronological :
          params.now - chronological[i].timestamp = recentWindowHours * 3600000

\* C6 as stated: chronological is strictly timestamp-ascending and ranked is
\* strictly finalScore-descending.
C6_StrictlyOrdered ==
    rkPc = "split" =>
        /\ \A i, j \in DOMAIN chronological :
              i < j => chronological[i].timestamp < chronological[j].timestamp
        /\ \A i, j \in DOMAIN ranked :
              i < j => ranked[i].finalScore > ranked[j].finalScore

\* C6 amended: chronological is timestamp-ascending and ranked is
\* finalScore-descending, neither strictly: entries of equal finalScore in
\* ranked stay in the order of the input lists (recency list ahead of the
\* semantic list), and entries of equal timestamp in chronological stay in the
\* order of the assembler's result.
C6_OrderedWithStableTies ==
    rkPc = "split" =>
        /\ \A i, j \in DOMAIN chronological : i < j =>
              /\ chronological[i].timestamp <= chronological[j].timestamp
              /\ chronological[i].timestamp = chronological[j].timestamp
                    => PositionOf(merged, chronological[i].id)
                           < PositionOf(merged, chronological[j].id)
        /\ \A i, j \in DOMAIN ranked : i < j =>
              /\ ranked[i].finalScore >= ranked[j].finalScore
              /\ ranked[i].finalScore = ranked[j].finalScore
                    => /\ InputRank(ranked[i].id) < InputRank(ranked[j].id)
                       /\ ranked[j].id \in IdsOf(recent) => ranked[i].id \in IdsOf(recent)
        /\ \A i, j \in DOMAIN merged : i < j =>
              /\ merged[i].finalScore >= merged[j].finalScore
              /\ merged[i].finalScore = merged[j].finalScore
                    => InputRank(merged[i].id) < InputRank(merged[j].id)

\* C6 witness: ranked holds two entries of equal finalScore, the first from the
\* recency list and the second from the semantic list only
C6_Witness ==
    /\ rkPc = "split"
    /\ \E i, j \in DOMAIN ranked :
          /\ i < j
          /\ ranked[i].finalScore = ranked[j].finalScore
          /\ ranked[i].id \in IdsOf(recent)
          /\ ranked[j].id \notin IdsOf(recent)

\* C7 as stated: computeScore returns a value in [0, 1] for every entry, every
\* semantic similarity and every reference time.
C7_ScoreInUnitInterval ==
    scPc = "scored" => scScore >= 0 /\ scScore <= Unit

\* C8: all else fixed, computeScore does not decrease when semanticSimilarity
\* grows and does not increase when hoursAgo = now - timestamp grows.
C8_ScoreMonotonic ==
    scPc = "scored" =>
        /\ \A s \in SemanticInputs :
              s >= scSemantic => computeScore(scEntry, s, scParams) >= scScore
        /\ \A t \in TimeGrid :
              t >= scParams.now =>
                  computeScore(scEntry, scSemantic, [scParams EXCEPT !.now = t]) <= scScore
        /\ \A t \in TimeGrid :
              t <= scEntry.timestamp =>
                  computeScore([scEntry EXCEPT !.timestamp = t], scSemantic, scParams)
                      <= scScore

\* C8 witness: a score that a greater similarity raises and a greater age lowers
C8_Witness ==
    /\ scPc = "scored"
    /\ \E s \in SemanticInputs :
          s > scSemantic /\ computeScore(scEntry, s, scParams) > scScore
    /\ \E t \in TimeGrid :
          /\ t > scParams.now
          /\ computeScore(scEntry, scSemantic, [scParams EXCEPT !.now = t]) < scScore

\* C9: the first occurrence of an id wins: an entry of the recency list is
\* scored with semantic term 0, also when the semantic list holds it with a
\* similarity; an entry of the semantic list only is scored with the similarity
\* returned for it.
C9_FirstOccurrenceWins ==
    Assembled =>
        \A i \in DOMAIN scored :
            LET e == scored[i]
                source == InputOrder[InputRank(e.id)]
            IN  /\ e = withScore(source, e.finalScore)
                /\ e.id \in IdsOf(recent)
                      => e.finalScore = computeScore(source, 0, params)
                /\ e.id \notin IdsOf(recent)
                      => e.finalScore
                             = computeScore(source, ReturnedSimilarity(e.id), params)

\* C9 witness: the result holds an entry of both lists whose returned similarity
\* is positive
C9_Witness ==
    /\ Assembled
    /\ \E i \in DOMAIN merged :
          /\ merged[i].id \in IdsOf(recent)
          /\ \E j \in DOMAIN relevant :
                relevant[j].entry.id = merged[i].id /\ relevant[j].score > 0

\* C10: parseDedupResponse returns UPDATE exactly when the response has the
\* shape UPDATE [n]: <text> (keyword in either case, optional white space
\* around the parts) with 1 <= n <= number of reference entries and a text of
\* at least 10 characters; then replaceId is the id of the n-th reference entry
\* and summary is the text.
C10_UpdateExactlyWhenValid ==
    psPc = "parsed" =>
        /\ parsed.action = "update" <=>
              /\ genParts.shape = "update"
              /\ genParts.index.n >= 1
              /\ genParts.index.n <= Len(recentEntries)
              /\ Len(genParts.body) >= 10
        /\ parsed.action = "update" =>
              /\ parsed.replaceId = recentEntries[genParts.index.n].id
              /\ parsed.summary = genParts.body

\* C10 witness: UPDATE [2] with a text of several lines against three
\* reference entries
C10_Witness ==
    /\ psPc = "parsed"
    /\ parsed.action = "update"
    /\ genParts.index.n = 2
    /\ Len(recentEntries) = 3
    /\ parsed.replaceId = "r2"
    /\ \E i \in DOMAIN parsed.summary : parsed.summary[i] = "\n"

\* C11: parseDedupResponse is total: it returns an action for every response;
\* a response UPDATE [n]: <text> whose n is 0 or above the number of reference
\* entries, or whose text has fewer than 10 characters, gives NEW with the text
\* as summary; NEW: <text> gives NEW with that text; a response of none of the
\* shapes gives NEW with the whole response, trimmed, as summary.
C11_DegradesToNew ==
    psPc = "parsed" =>
        /\ parsed.action \in {"new", "update", "skip"}
        /\ ( /\ genParts.shape = "update"
             /\ \/ genParts.index.n < 1
                \/ genParts.index.n > Len(recentEntries)
                \/ Len(genParts.body) < 10 )
           => parsed = [action |-> "new", summary |-> genParts.body]
        /\ genParts.shape = "new"
           => parsed = [action |-> "new", summary |-> genParts.body]
        /\ genParts.shape = "other"
           => parsed = [action |-> "new", summary |-> genParts.body]

\* C11 witness: UPDATE [9]: text against three reference entries has come back
\* as NEW with the summary "text"
C11_Witness ==
    /\ psPc = "parsed"
    /\ genParts.shape = "update"
    /\ genParts.index.n = 9
    /\ Len(recentEntries) = 3
    /\ parsed.action = "new"
    /\ parsed.summary = <<"t","e","x","t">>

-----------------------------------------------------------------------------
(* Vocabulary of the capture properties *)

\* the rows the invocation has added to the store
Added == { e \in table : \A old \in table0 : old.id # e.id }

\* the capture handler has returned
CaptureDone == hook = "agent_end" /\ plPc = "done"

\* the generation service answered with a text and the classifier read it
ClassifierRead ==
    /\ generation.kind = "text"
    /\ Len(cpRecentEntries) > 0
    /\ \E i \in DOMAIN generation.text : ~IsSpace(generation.text[i])

\* C12: a classifier response that is not SKIP is never dropped: when the
\* capture handler has returned and none of its external calls failed, the store
\* holds a new entry whose summary is the text the parser returned.
C12_ResponseNeverDropped ==
    ( /\ CaptureDone
      /\ ClassifierRead
      /\ caught = "none"
      /\ cpResult.action \in {"new", "update"} )
    => \E e \in Added : e.summary = cpResult.summary

C14_GenerationFailureGivesRuleBased ==
    ( /\ hook = "agent_end"
      /\ generation.kind \in {"networkError", "notOk", "malformedPayload", "noText"} )
    => /\ cpResult = [action |-> "new", summary |-> event.ruleSummary]
       /\ caught # "summarize"
       /\ outcome # "threw"

\* C14 witness: the service answered with a status that is not OK and the
\* rule-based summary has been stored
C14_Witness ==
    /\ CaptureDone
    /\ generation.kind = "notOk"
    /\ \E e \in Added : e.summary = event.ruleSummary

\* C15: a capture that resolves to UPDATE never leaves more entries than it
\* found; when none of its external calls failed, the target is gone and the
\* only entry added is one fresh entry (new id, timestamp of the insertion, the
\* vector just computed) with the update's summary.
C15_UpdateReplaces ==
    ( hook = "agent_end" /\ cpResult.action = "update" )
    => /\ Cardinality(table) <= Cardinality(table0)
       /\ ( plPc = "done" /\ caught = "none" )
          => /\ \A e \in table : e.id # cpResult.replaceId
             /\ Cardinality(Added) = 1
             /\ \A e \in Added :
                   /\ e.summary = cpResult.summary
                   /\ e.vector = cpVector
                   /\ e.timestamp >= StartClock
             /\ \A e \in table \ Added : e \in table0

\* C15 witness: UPDATE [2] against a store of two entries has replaced the
\* older one, and the store has two entries again
C15_Witness ==
    /\ CaptureDone
    /\ caught = "none"
    /\ cpResult.action = "update"
    /\ cpResult.replaceId = "p2"
    /\ Cardinality(table0) = 2
    /\ Cardinality(table) = 2
    /\ Cardinality(Added) = 1

\* C16: a failure of an external call (store, embedding, generation) in the
\* capture or the recall handler never reaches the host: the handler returns,
\* and a recall in which a call failed returns no context to inject.
C16_FailuresNotSurfaced ==
    /\ outcome # "threw"
    /\ ( plPc = "done" /\ caught # "none" )
       => /\ outcome = "returned"
          /\ hook = "before_agent_start" => injected = [kind |-> "nothing"]

\* C16 witness: the nearest-neighbour query of a recall over a store of two
\* entries has failed, and the handler has returned
C16_Witness ==
    /\ hook = "before_agent_start"
    /\ plPc = "done"
    /\ caught = "search"
    /\ Len(rc.recent) = 2
    /\ outcome = "returned"

\* C17: a capture in which an external call failed loses nothing: when the
\* handler has returned from its catch block, either an entry for the turn has
\* been stored or the store holds the rows it held before.
C17_FailureLosesNothing ==
    ( CaptureDone /\ caught # "none" )
    => \/ Added # {}
       \/ table = table0

-----------------------------------------------------------------------------
(* Vocabulary of the consolidator properties *)

\* the cosine similarity of the two entries' vectors reaches the run's threshold
Similar(a, b) == reaches(cosineSimilarity(a.vector, b.vector), clArgs.similarity)

\* groupSimilar has returned in this run
Grouped == clPc \in {"merge", "delete", "embed", "store", "done"} /\ clEntries # <<>>

MembersOf(group) == { group[i] : i \in DOMAIN group }

\* the position of an entry in the scan the run loaded
ScanPosition(e) == CHOOSE i \in DOMAIN clEntries : clEntries[i] = e

\* the seed of a group: its member that comes first in the scan
SeedOf(group) ==
    CHOOSE a \in MembersOf(group) :
        \A b \in MembersOf(group) : ScanPosition(a) <= ScanPosition(b)

\* C18: the clusters of groupSimilar are built seed by seed in scan order: they
\* are made of loaded entries, pairwise disjoint, of at least 2 members each,
\* ordered by their seeds, every member but the seed has a cosine similarity
\* to the seed that reaches the threshold, and an entry whose similarity to
\* every other entry is below the threshold is in no cluster and stays in the
\* store as it is.
C18_ClustersSeedBySeed ==
    Grouped =>
        /\ \A g \in DOMAIN clGroups :
              /\ Len(clGroups[g]) >= 2
              /\ Cardinality(MembersOf(clGroups[g])) = Len(clGroups[g])
              /\ MembersOf(clGroups[g]) \subseteq MembersOf(clEntries)
              /\ \A m \in MembersOf(clGroups[g]) :
                    m = SeedOf(clGroups[g]) \/ Similar(SeedOf(clGroups[g]), m)
        /\ \A g, h \in DOMAIN clGroups :
              g < h => /\ MembersOf(clGroups[g]) \cap MembersOf(clGroups[h]) = {}
                       /\ ScanPosition(SeedOf(clGroups[g])) < ScanPosition(SeedOf(clGroups[h]))
        /\ \A e \in MembersOf(clEntries) :
              ( \A other \in MembersOf(clEntries) : other # e => ~Similar(e, other) )
              => /\ \A g \in DOMAIN clGroups : e \notin MembersOf(clGroups[g])
                 /\ e \in table

\* C18 witness: with cosine(c1, c2) above the threshold and c3 similar to
\* neither, a completed mutating run found the one cluster {c1, c2} and c3 is
\* still in the store
C18_Witness ==
    /\ clPc = "done"
    /\ clStatus = "completed"
    /\ run = 1
    /\ ~clArgs.dryRun
    /\ Len(clEntries) = 3
    /\ Len(clGroups) = 1
    /\ { m.id : m \in MembersOf(clGroups[1]) } = {"c1", "c2"}
    /\ CleanupRow(3) \in table
    /\ Cardinality(table) = 2

\* C19 as claimed: any two members of a cluster have a cosine similarity that
\* reaches the threshold.
C19_PairwiseSimilar ==
    Grouped =>
        \A g \in DOMAIN clGroups :
            \A m, n \in MembersOf(clGroups[g]) : m # n => Similar(m, n)

\* C19, amended: every member of a cluster has a cosine similarity to the
\* cluster's seed (its member first in scan order) that reaches the threshold.
C19_SimilarToSeed ==
    Grouped =>
        \A g \in DOMAIN clGroups :
            \A m \in MembersOf(clGroups[g]) :
                m # SeedOf(clGroups[g]) => Similar(SeedOf(clGroups[g]), m)

\* C19 witness: a cluster of three whose seed is similar to both other members
\* while these two are not similar to each other
C19_Witness ==
    /\ Grouped
    /\ \E g \in DOMAIN clGroups :
          /\ Len(clGroups[g]) = 3
          /\ \E m, n \in MembersOf(clGroups[g]) :
                /\ m # SeedOf(clGroups[g])
                /\ n # SeedOf(clGroups[g])
                /\ m # n
                /\ ~Similar(m, n)

\* C20: the consolidator is idempotent: the second of two mutating runs in
\* succession, on the store the first one has left, finds no cluster and leaves
\* the store as it found it.
C20_SecondRunFindsNothing ==
    ( /\ run = 2
      /\ ~clArgs.dryRun
      /\ clPc \in {"merge", "delete", "embed", "store", "done"} )
    => /\ clGroups = <<>>
       /\ table = table0

\* C21: in mutating mode the backup of the whole store is complete before the
\* first deletion is issued: whenever the run has changed the store, or is at
\* a step that deletes or inserts, the backup has been taken and holds the
\* store as the run found it; a run whose backup failed has deleted and
\* inserted nothing.
C21_BackupBeforeDeletion ==
    /\ ( ~clArgs.dryRun /\ (table # table0 \/ clPc \in {"delete", "embed", "store"}) )
       => ( backup.taken /\ backup.rows = table0 )
    /\ ( ~clArgs.dryRun /\ clPc = "done" /\ ~backup.taken )
       => table = table0

\* C21 witness: the first deletion of a mutating run has been carried out, with
\* the backup taken before it
C21_Witness ==
    /\ ~clArgs.dryRun
    /\ run = 1
    /\ clPc = "delete"
    /\ gi = 1
    /\ di = 2
    /\ Cardinality(table) = Cardinality(table0) - 1
    /\ backup.taken

\* C22: a dry run clusters and reports the merges it would make without a call
\* of the generation service, of the embedding service, of deleteById or of
\* store: it is never at one of these steps, it holds no merged summary and no
\* vector, the store is as it was found, and a completed dry run has counted
\* the entries the merges would remove.
C22_DryRunChangesNothing ==
    clArgs.dryRun =>
        /\ clPc \notin {"merge", "delete", "embed", "store"}
        /\ mergedSummary = <<>>
        /\ clVector = <<>>
        /\ uuids = 0
        /\ table = table0
        /\ ~backup.taken
        /\ ( clPc = "done" /\ clStatus = "completed" )
           => totalRemoved = removedBy(clGroups)

\* C22 witness: a completed dry run that found a cluster
C22_Witness ==
    /\ clArgs.dryRun
    /\ clPc = "done"
    /\ clStatus = "completed"
    /\ clGroups # <<>>
    /\ totalRemoved >= 1
    /\ table = table0

\* C23: a failure of the merge generation for a cluster (an error status, an
\* exception, an answer that is too short) does not end the run: the merge
\* step of a cluster never leaves the run failed, it leaves a summary for the
\* cluster (the answer, or the newest member's summary) and goes on to the
\* cluster's deletions.
C23_MergeFailureDoesNotAbort ==
    [][ clPc = "merge"
        => /\ clStatus' # "failed"
           /\ clPc' = "delete"
           /\ mergedSummary' # <<>> ]_vars

\* C24: a failure of the embedding call for a cluster's merged summary leaves
\* the members of the cluster in the store (the merged entry cannot be there:
\* it has no vector).
C24_EmbedFailureKeepsMembers ==
    [][ ( clPc = "embed" /\ clStatus' = "failed" )
        => MembersOf(clGroups[gi]) \subseteq table' ]_vars

\* an entry that has left the window at the handler's current time
Expired(e) == e.timestamp < cutoffOf(clock, cfg.windowHours)

Formatted ==
    /\ hook = "before_agent_start"
    /\ rc.merged # <<>>
    /\ ~rc.context.empty

\* C27: maxInjectTokens is a hard budget: the estimated token count
\* (ceil(characters / 4)) of a non-empty block returned by formatSlidingContext
\* never exceeds options.maxTokens.
C27_BlockWithinBudget ==
    Formatted => estimateTokens(rc.context.length) <= cfg.maxInjectTokens

\* the positions of contentDedup's input whose entries are in its output
KeptPositions == { i \in DOMAIN sortedScored : sortedScored[i].id \in IdsOf(deduped) }

\* the candidate at position i is covered: an entry of the output that is
\* ahead of it in the input is its near-duplicate
Covered(i) ==
    \E j \in KeptPositions :
        /\ j < i
        /\ sortedScored[j].finalScore >= sortedScored[i].finalScore
        /\ NearDuplicate(sortedScored[j], sortedScored[i])

\* C28: for score-descending input contentDedup discards a candidate only when
\* it is covered: every discarded entry has an entry of the output ahead of it
\* in the input (so of a finalScore not below its own) whose timestamp is
\* within the time window of its own and whose Jaccard similarity with it
\* reaches the threshold; a candidate without such an entry is kept.
C28_DiscardedOnlyWhenCovered ==
    Assembled =>
        /\ ScoreDescending(sortedScored)
        /\ \A i \in DOMAIN sortedScored : i \notin KeptPositions => Covered(i)
        /\ \A i \in DOMAIN sortedScored : ~Covered(i) => i \in KeptPositions

\* C28 witness: one candidate is discarded, and a later one, of the same words
\* as an accepted entry but outside its time window, is kept
C28_Witness ==
    /\ Assembled
    /\ \E i \in DOMAIN sortedScored : i \notin KeptPositions
    /\ \E i \in KeptPositions, j \in KeptPositions :
          /\ j < i
          /\ significantWords(sortedScored[j].summary) = significantWords(sortedScored[i].summary)
          /\ ~NearDuplicate(sortedScored[j], sortedScored[i])

\* summarizeWithLlm has returned for the event of this capture
Summarized ==
    /\ hook = "agent_end"
    /\ cfg.mode = "llm"
    /\ cpResult # NoResult

\* C30: injected context blocks are kept out of what is summarized: for a
\* transcript that holds a <sliding-context> block, summarizeWithLlm returns
\* SKIP without a generation call (fewer than 20 characters are left without
\* the block), or the transcript it sends to the generation service holds no
\* injected block.
C30_PromptHasNoInjectedBlock ==
    ( Summarized /\ event.transcript.includesInjection )
    => \/ cpResult.action = "skip" /\ generation = NotCalled
       \/ generation # NotCalled /\ ~generation.prompt.includesInjection

\* the stored entries that are within the window of the getRecent call
InWindow == { e \in table : e.timestamp >= grNow - grWindowHours * MsPerHour }

\* C25: getRecent(limit, windowHours) returns the most recent entries: the
\* min(limit, number of entries in the window) stored entries of the greatest
\* timestamps among those with timestamp >= now - windowHours, the most recent
\* first, however many entries the store holds.
C25_MostRecentReturned ==
    grPc = "returned" =>
        /\ Len(grResult) = Min(grLimit, Cardinality(InWindow))
        /\ \A i \in DOMAIN grResult : grResult[i] \in InWindow
        /\ \A i, j \in DOMAIN grResult :
              i < j => /\ grResult[i] # grResult[j]
                       /\ grResult[i].timestamp >= grResult[j].timestamp
        /\ \A e \in InWindow :
              (\A i \in DOMAIN grResult : grResult[i] # e)
              => \A i \in DOMAIN grResult : grResult[i].timestamp >= e.timestamp

\* C29: under any interleaving of two capture invocations on one store, an
\* UPDATE replaces and does not append: when both invocations have resolved to
\* UPDATE of the same target entry and have returned, the store holds no more
\* entries than it held before the two started.
C29_ConcurrentUpdateReplaces ==
    ( /\ \A i \in Invocations : invocations[i].pc = "done"
      /\ \A i \in Invocations : deletesTarget(invocations[i].result)
      /\ \A i, j \in Invocations :
            invocations[i].result.replaceId = invocations[j].result.replaceId )
    => Cardinality(table) <= Cardinality(table0)

=============================================================================
